---- MODULE Spec2Model ----
(***************************************************************************)
(* A model of the request/response correlation layer of the Foundry VTT    *)
(* MCP server: FoundryClient (src/src/foundry-client.ts) and FoundryRpc    *)
(* (src/src/rpc.ts).                                                        *)
(*                                                                         *)
(* Execution model.  The program runs on one JavaScript event loop.  An    *)
(* action of this module is one macrotask (a tool invocation, a network    *)
(* event, a timer) together with every synchronous statement and promise   *)
(* continuation it triggers.  The one place where several continuations    *)
(* are queued at once is the settlement of a connection attempt: every     *)
(* caller awaiting it resumes in a microtask of its own (action Resume),   *)
(* and no macrotask runs before all of them have resumed (Quiescent).      *)
(*                                                                         *)
(* Channels.  connectSocket() is called once per connection attempt, so    *)
(* the channel opened by attempt a is channel a.                           *)
(***************************************************************************)
EXTENDS Integers, Sequences, FiniteSets, TLC

\* ------------------------------------------------------------------ bounds
NumCalls == 2
MaxAttempts == 3
MaxReconnects == 1
NumRpc == 2
NumPing == 2
NumUsersCalls == 2
MaxEvents == 2
MaxPolls == 2

Procs == 1..NumCalls
RProcs == 1..NumRpc
PProcs == 1..NumPing
UProcs == 1..NumUsersCalls
Attempts == 1..MaxAttempts

\* null for socket, sessionId, connectPromise, awaited attempt
Null == 0

\* ------------------------------------------------------------ error texts
\* An error message is a sequence of fragments; String.includes(needle) is
\* modelled as "needle is one of the fragments".
Includes(msg, needle) == \E i \in 1..Len(msg) : msg[i] = needle

NoError == << >>
EmitTimeoutMsg == <<"Foundry socket request", "timed out", "after 30s">>
NotConnectedMsg == <<"Not connected", "to Foundry VTT">>
NotReachableMsg == <<"Foundry VTT is not reachable">>
FetchFailedMsg == <<"fetch failed">>
NoActiveWorldMsg == <<"Foundry VTT has no active world">>
AuthNoCookieMsg == <<"Authentication failed", "no session cookie returned">>
AuthBadCookieMsg == <<"Authentication failed", "session cookie not found">>
HandshakeTimeoutMsg == <<"Socket.io connection", "timed out", "after 10s">>
SessionRejectedMsg == <<"Foundry rejected the session">>
ConnectErrorMsg == <<"Socket.io connection failed">>
UnknownFoundryErrorMsg == <<"Unknown Foundry error">>

\* error.message values the remote may put in a modifyDocument reply
AbsentMsg == << >>
PermissionMsg == <<"User lacks permission">>
SniffedMsg == <<"Token was", "disconnected", "from its scene">>
ReplyMessages == {AbsentMsg, PermissionMsg, SniffedMsg}

\* ------------------------------------------------------------------ state
VARIABLES
    client,      \* the FoundryClient fields
    attempt,     \* attempt[a]: the connect() coroutine of attempt a
    started,     \* number of connect() invocations so far
    chan,        \* chan[c]: the socket.io channel opened by attempt c
    call,        \* call[p]: one invocation of modifyDocument or of a helper
    reconnects,  \* number of automatic reconnections of the channel library
    rpc,         \* the FoundryRpc fields
    rcall,       \* rcall[r]: one invocation of FoundryRpc.call
    pcall,       \* pcall[q]: one invocation of FoundryRpc.ping
    uuids,       \* number of randomUUID() values drawn so far
    ucall,       \* ucall[q]: one invocation of getActiveUsers
    mcall,       \* one invocation of executeMacroWithResult
    shut         \* disconnect() was called, and ensureConnected() not since

vars == <<client, attempt, started, chan, call, reconnects, rpc, rcall,
          pcall, uuids, ucall, mcall, shut>>

States == {"disconnected", "authenticating", "connecting", "connected", "ready"}

Kinds == {"modifyDocument", "emitSocket", "emitSocketArgs",
          "emitSocketCallback", "emitSocketRaw"}

\* the only user id the remote resolves a session to
NoUser == "none"
RemoteUser == "gm"

NoResult == [ok |-> FALSE, from |-> 0, msg |-> NoError]

IdleCall == [kind |-> "none", pc |-> "idle", att |-> Null, ch1 |-> Null,
             ch2 |-> Null, timers |-> {}, emits |-> 0, cycles |-> 0,
             err1 |-> NoError, res |-> NoResult]

NoChan == [st |-> "none", hello |-> FALSE, hsTimer |-> FALSE,
           rcTimer |-> FALSE, once |-> {}, acks |-> {}, rpcL |-> 0,
           pongL |-> {}]

\* a timer of FoundryRpc.call is its callback's closure: the method and
\* timeoutMs its error text names; NoTimer is a cleared or fired timer
NoTimer == [method |-> "none", timeoutMs |-> "none"]

\* an invocation of FoundryRpc.call; args are its arguments until its timer
\* is armed.  fired counts the calls of the
\* promise's resolve/reject; by and res are what first settled it; late (a
\* response bearing its id was handled after it had been settled) and
\* strayed (a response with an unregistered id was handled while it was
\* pending) record what the channel delivered.
\* no response: the value of a promise that has not resolved
NoPayload == [success |-> FALSE, result |-> "none"]

IdleRpc == [pc |-> "idle", promise |-> "none", att |-> Null,
            args |-> NoTimer, id |-> 0, timer |-> NoTimer, sent |-> FALSE,
            fired |-> 0, by |-> "none", res |-> NoPayload, err |-> NoError,
            late |-> FALSE,
            strayed |-> FALSE]

\* an invocation of FoundryRpc.ping: promise is the promise built at line
\* 146, result what the invocation returned ("alive", "dead") or that it
\* threw ("rejected"), version the moduleVersion it returned; got is the
\* moduleVersion of the first rpc-pong bearing its id that its handler was
\* given while the promise was pending.
IdlePing == [pc |-> "idle", att |-> Null, id |-> 0, timer |-> FALSE,
             promise |-> "none", result |-> "none", version |-> "none",
             by |-> "none", sent |-> FALSE, got |-> "none"]

\* an invocation of getActiveUsers: ch is the channel it emitted its
\* request on, on the channel its handler is registered on (Null: none),
\* users the array the handler pushes to and the promise resolves with;
\* arrived lists the userActivity events channel ch delivered while the
\* window was open, seen is the content of users when the promise resolved.
IdleUsers == [pc |-> "idle", att |-> Null, ch |-> Null, on |-> Null,
              timer |-> FALSE, users |-> << >>, arrived |-> << >>,
              seen |-> << >>, err |-> NoError]

\* what executeMacroWithResult returns ("success", "failure") or throws
NoOutcome == [kind |-> "none", val |-> NoError]

\* an invocation of executeMacroWithResult: created says that the macro id
\* was obtained, polls counts the finished iterations of the poll loop,
\* deletes the deletes of the macro that were started, out is what the try
\* block returned or threw when the finally block was entered, ret what
\* the operation returned or threw; delFailed and msgDelFailed record that
\* the delete of the macro, of the result message, threw.
IdleMacro == [pc |-> "idle", att |-> Null, created |-> FALSE, polls |-> 0,
              deletes |-> 0, delFailed |-> FALSE, msgDelFailed |-> FALSE,
              out |-> NoOutcome, ret |-> NoOutcome]

\* Map<string, PendingRequest> as a function from the registered ids
NoPending == [i \in {} |-> 0]

Init ==
    /\ client = [state |-> "disconnected", sessionId |-> Null,
                 userId |-> NoUser, worldInfo |-> "null", socket |-> Null,
                 connectPromise |-> Null]
    /\ attempt = [a \in Attempts |-> [pc |-> "idle", err |-> NoError]]
    /\ started = 0
    /\ chan = [c \in Attempts |-> NoChan]
    /\ call = [p \in Procs |-> IdleCall]
    /\ reconnects = 0
    /\ rpc = [pending |-> NoPending, listenerAttached |-> FALSE,
              messageHandler |-> FALSE, attachedOn |-> Null]
    /\ rcall = [r \in RProcs |-> IdleRpc]
    /\ pcall = [q \in PProcs |-> IdlePing]
    /\ uuids = 0
    /\ ucall = [q \in UProcs |-> IdleUsers]
    /\ mcall = IdleMacro
    /\ shut = FALSE

\* The whole state as one value, so that the statements of a handler can be
\* composed in the order the code runs them.
World == [cl |-> client, at |-> attempt, n |-> started, ch |-> chan,
          cs |-> call, rc |-> reconnects, rpc |-> rpc, rs |-> rcall,
          ps |-> pcall, uu |-> uuids, us |-> ucall,
          ms |-> mcall, sh |-> shut]

Becomes(w) ==
    /\ client' = w.cl
    /\ attempt' = w.at
    /\ started' = w.n
    /\ chan' = w.ch
    /\ call' = w.cs
    /\ reconnects' = w.rc
    /\ rpc' = w.rpc
    /\ rcall' = w.rs
    /\ pcall' = w.ps
    /\ uuids' = w.uu
    /\ ucall' = w.us
    /\ mcall' = w.ms
    /\ shut' = w.sh

\* ------------------------------------------------- FoundryClient: session
\* this.socket?.connected === true
SocketConnected(w) == w.cl.socket # Null /\ w.ch[w.cl.socket].st = "up"

IsReady(w) == w.cl.state = "ready" /\ SocketConnected(w)

\* a "disconnect" listener that clears the session whatever the reason
OnDisconnectAlwaysClear(w, reason) ==
    [w EXCEPT !.cl.state = "disconnected", !.cl.sessionId = Null]

\* the "disconnect" listener registered by connectSocket
OnDisconnect(w, reason) ==
    [w EXCEPT !.cl.state = "disconnected",
              !.cl.sessionId = IF reason = "io server disconnect"
                               THEN Null ELSE @]

\* socket.disconnect() of the channel library, called on channel c: the
\* channel is closed for good, its unanswered acknowledgements are lost,
\* and "disconnect" is emitted synchronously if it was connected.
SocketDisconnect(w, c) ==
    LET w1 == [w EXCEPT !.ch[c].st = "closed", !.ch[c].hello = FALSE,
                        !.ch[c].acks = {}]
    IN  IF w.ch[c].st = "up" THEN OnDisconnect(w1, "io client disconnect")
        ELSE w1

\* connect() up to its first await: a new attempt, awaiting fetchStatus()
Connect(w) ==
    [w EXCEPT !.n = @ + 1,
              !.cl.state = "authenticating",
              !.at[w.n + 1] = [pc |-> "fetchStatus", err |-> NoError]]

\* ensureConnected() without the test of connectPromise
EnsureConnectedUnshared(w) ==
    IF IsReady(w) THEN [w |-> w, awaited |-> Null]
    ELSE LET w1 == Connect(w)
         IN  [w |-> [w1 EXCEPT !.cl.connectPromise = w1.n], awaited |-> w1.n]

\* ensureConnected() without the test of isReady
EnsureConnectedNoFastPath(w) ==
    IF w.cl.connectPromise # Null
    THEN [w |-> w, awaited |-> w.cl.connectPromise]
    ELSE IF w.n >= MaxAttempts THEN [w |-> w, awaited |-> Null]
    ELSE LET w1 == Connect(w)
         IN  [w |-> [w1 EXCEPT !.cl.connectPromise = w1.n], awaited |-> w1.n]

\* ensureConnected(): the attempt the caller has to await (Null: none);
\* sh records that it has been invoked
EnsureConnected(w) ==
    LET w0 == [w EXCEPT !.sh = FALSE]
    IN  IF IsReady(w0) THEN [w |-> w0, awaited |-> Null]
        ELSE IF w0.cl.connectPromise # Null
             THEN [w |-> w0, awaited |-> w0.cl.connectPromise]
             ELSE LET w1 == Connect(w0)
                  IN  [w |-> [w1 EXCEPT !.cl.connectPromise = w1.n],
                       awaited |-> w1.n]

\* ensureConnected() can run within the bound on attempts
CanEnsure(w) ==
    IsReady(w) \/ w.cl.connectPromise # Null \/ w.n < MaxAttempts

\* a rejection that leaves connectPromise set
RejectAttemptKeepPromise(w, a, err) ==
    [w EXCEPT !.at[a] = [pc |-> "rejected", err |-> err]]

\* connect() throws err: the promise of attempt a rejects, and the
\* finally() callback of ensureConnected clears connectPromise
RejectAttempt(w, a, err) ==
    [w EXCEPT !.at[a] = [pc |-> "rejected", err |-> err],
              !.cl.connectPromise = Null]

\* connectSocket() resolved: connect() sets "ready" and returns
ResolveAttempt(w, a) ==
    [w EXCEPT !.at[a] = [pc |-> "resolved", err |-> NoError],
              !.cl.state = "ready",
              !.cl.connectPromise = Null]

\* connectSocket(): arm the 10 s timer, open a channel, store it in socket
ConnectSocket(w, a) ==
    [w EXCEPT !.ch[a] = [NoChan EXCEPT !.st = "opening", !.hsTimer = TRUE],
              !.cl.socket = a,
              !.at[a].pc = "connectSocket"]

\* The attempt awaited by a caller has settled and the caller's
\* continuation has not run yet.
Resumable(p) ==
    /\ call[p].pc \in {"conn1", "conn2"}
    /\ attempt[call[p].att].pc \in {"resolved", "rejected"}

RpcResumable(r) ==
    /\ rcall[r].pc \in {"conn", "emitting"}
    /\ attempt[rcall[r].att].pc \in {"resolved", "rejected"}

\* No continuation is queued: the event loop takes the next macrotask.
PingResumable(q) ==
    /\ pcall[q].pc \in {"conn", "emitting"}
    /\ attempt[pcall[q].att].pc \in {"resolved", "rejected"}

\* the modifyDocument invocations of executeMacroWithResult are call[MacroSlot]
MacroSlot == 1

\* the attempt executeMacroWithResult awaits has settled
MacroResumable ==
    /\ mcall.pc = "conn"
    /\ attempt[mcall.att].pc \in {"resolved", "rejected"}

\* the modifyDocument executeMacroWithResult awaits has settled
MacroSettled ==
    /\ mcall.pc \in {"create", "exec", "poll", "delMsg", "delMacro"}
    /\ call[MacroSlot].pc \in {"done", "failed"}

UsersResumable(q) ==
    /\ ucall[q].pc = "conn"
    /\ attempt[ucall[q].att].pc \in {"resolved", "rejected"}

Quiescent ==
    /\ \A p \in Procs : ~Resumable(p)
    /\ \A r \in RProcs : ~RpcResumable(r)
    /\ \A q \in PProcs : ~PingResumable(q)
    /\ \A q \in UProcs : ~UsersResumable(q)
    /\ ~MacroResumable
    /\ ~MacroSettled

\* connect() without the reset of the state before the throw of line 56
FetchStatusKeepState(a, r) ==
    /\ Quiescent
    /\ attempt[a].pc = "fetchStatus"
    /\ Becomes(
         CASE r = "fetchFailed" -> RejectAttempt(World, a, FetchFailedMsg)
           [] r = "httpError" -> RejectAttempt(World, a, NotReachableMsg)
           [] r = "inactive" ->
                RejectAttempt([World EXCEPT !.cl.worldInfo = "inactive"],
                              a, NoActiveWorldMsg)
           [] r = "active" ->
                [World EXCEPT !.cl.worldInfo = "active",
                              !.at[a].pc = "authenticate"])

\* fetchStatus() returns or throws (connect(), lines 51-62)
FetchStatus(a, r) ==
    /\ Quiescent
    /\ attempt[a].pc = "fetchStatus"
    /\ Becomes(
         CASE r = "fetchFailed" -> RejectAttempt(World, a, FetchFailedMsg)
           [] r = "httpError" -> RejectAttempt(World, a, NotReachableMsg)
           [] r = "inactive" ->
                RejectAttempt([World EXCEPT !.cl.worldInfo = "inactive",
                                            !.cl.state = "disconnected"],
                              a, NoActiveWorldMsg)
           [] r = "active" ->
                [World EXCEPT !.cl.worldInfo = "active",
                              !.at[a].pc = "authenticate"])

\* authenticate() returns or throws (connect(), lines 62-67)
Authenticate(a, r) ==
    /\ Quiescent
    /\ attempt[a].pc = "authenticate"
    /\ Becomes(
         CASE r = "noCookie" -> RejectAttempt(World, a, AuthNoCookieMsg)
           [] r = "badCookie" -> RejectAttempt(World, a, AuthBadCookieMsg)
           [] r = "session" ->
                ConnectSocket([World EXCEPT !.cl.sessionId = a,
                                            !.cl.state = "connecting"], a))

\* ------------------------------------------------ channel event handlers
\* the reject() of connectSocket's promise: only its first settlement counts
RejectHandshake(w, a, err) ==
    IF w.at[a].pc = "connectSocket" THEN RejectAttempt(w, a, err) ELSE w

\* the resolve() of connectSocket's promise, followed by the rest of connect()
ResolveHandshake(w, a) ==
    IF w.at[a].pc = "connectSocket" THEN ResolveAttempt(w, a) ELSE w

\* the "session" listener registered by connectSocket on channel c
\* (lines 583-596); this.socket is whatever channel the field holds now
OnSession(w, c, ok) ==
    LET w1 == [w EXCEPT !.ch[c].hsTimer = FALSE]
    IN  IF ~ok
        THEN [reject |-> TRUE,
              w |-> IF w1.cl.socket # Null
                    THEN SocketDisconnect(w1, w1.cl.socket) ELSE w1]
        ELSE [reject |-> FALSE, w |-> [w1 EXCEPT !.cl.userId = RemoteUser]]

\* a once("session") listener that takes any confirmation as readiness
OnceSessionBlind(w, s, ok) ==
    [w EXCEPT !.ch[s].rcTimer = FALSE, !.cl.userId = RemoteUser,
              !.cl.state = "ready"]

\* one once("session") listener registered by the "reconnect" listener of
\* channel s (lines 618-630)
OnceSession(w, s, ok) ==
    LET w1 == [w EXCEPT !.ch[s].rcTimer = FALSE]
    IN  IF ok THEN [w1 EXCEPT !.cl.userId = RemoteUser, !.cl.state = "ready"]
        ELSE [w1 EXCEPT !.cl.state = "disconnected", !.cl.sessionId = Null]

\* every once("session") listener in the set S, one after the other
RECURSIVE OnceSessions(_, _, _)
OnceSessions(w, S, ok) ==
    IF S = {} THEN w
    ELSE LET s == CHOOSE x \in S : \A y \in S : x <= y
         IN  OnceSessions(OnceSession(w, s, ok), S \ {s}, ok)

\* the channel library connects channel c for the first time
ChanConnect(c) ==
    /\ Quiescent
    /\ chan[c].st = "opening"
    /\ chan' = [chan EXCEPT ![c].st = "up", ![c].hello = TRUE]
    /\ UNCHANGED <<client, attempt, started, call, reconnects, rpc, rcall,
                   pcall, uuids, ucall, mcall, shut>>

\* the remote emits "session" on channel c, once per connection, with a
\* user id (ok) or without: the connectSocket listener runs, then the
\* once() listeners, then the continuation of connect()
SessionEvent(c, ok) ==
    /\ Quiescent
    /\ chan[c].st = "up" /\ chan[c].hello
    /\ LET w0 == [World EXCEPT !.ch[c].hello = FALSE, !.ch[c].once = {}]
           h == OnSession(w0, c, ok)
           w2 == OnceSessions(h.w, chan[c].once, ok)
       IN  Becomes(IF h.reject THEN RejectHandshake(w2, c, SessionRejectedMsg)
                   ELSE ResolveHandshake(w2, c))

\* "connect_error" on channel c (lines 598-601); the library keeps trying
ConnectError(c) ==
    /\ Quiescent
    /\ chan[c].st = "opening"
    /\ attempt[c].pc = "connectSocket"
    /\ Becomes(RejectHandshake([World EXCEPT !.ch[c].hsTimer = FALSE], c,
                               ConnectErrorMsg))

\* the 10 s timer of connectSocket fires (lines 569-571)
HandshakeTimeout(c) ==
    /\ Quiescent
    /\ chan[c].hsTimer
    /\ Becomes(RejectHandshake([World EXCEPT !.ch[c].hsTimer = FALSE], c,
                               HandshakeTimeoutMsg))

\* channel c loses its transport ("transport close") or is kicked by the
\* remote ("io server disconnect"): acknowledgements not yet received are
\* lost, and the "disconnect" listener runs (lines 603-609)
DisconnectEvent(c, reason) ==
    /\ Quiescent
    /\ chan[c].st = "up"
    /\ Becomes(OnDisconnect(
         [World EXCEPT !.ch[c].st = IF reason = "io server disconnect"
                                    THEN "kicked" ELSE "down",
                       !.ch[c].hello = FALSE,
                       !.ch[c].acks = {}], reason))

\* A reconnect context of channel c is live: its 5 s timer is armed or its
\* once("session") listener is still registered somewhere.
ReconnectContext(c) ==
    chan[c].rcTimer \/ \E t \in Attempts : c \in chan[t].once

\* the channel library reconnects channel c: the "reconnect" listener arms
\* the 5 s timer and registers once("session") on this.socket (lines
\* 611-631); with this.socket null the listener throws after arming it
ReconnectEvent(c) ==
    /\ Quiescent
    /\ chan[c].st = "down"
    /\ ~ReconnectContext(c)
    /\ reconnects < MaxReconnects
    /\ LET w1 == [World EXCEPT !.ch[c].st = "up", !.ch[c].hello = TRUE,
                               !.ch[c].rcTimer = TRUE, !.rc = @ + 1]
       IN  Becomes(IF w1.cl.socket = Null THEN w1
                   ELSE [w1 EXCEPT !.ch[w1.cl.socket].once = @ \cup {c}])

\* the 5 s timer armed by the "reconnect" listener fires (lines 613-616)
ReconnectTimeout(c) ==
    /\ Quiescent
    /\ chan[c].rcTimer
    /\ Becomes([World EXCEPT !.ch[c].rcTimer = FALSE,
                             !.cl.state = "disconnected",
                             !.cl.sessionId = Null])

\* -------------------------------------- FoundryClient: calls on the socket
\* the try/catch left out of emitSocket and emitSocketArgs
HasRetryModifyOnly(kind) == kind = "modifyDocument"

\* which helpers wrap their emission in the try/catch that retries
HasRetry(kind) == kind \in {"modifyDocument", "emitSocket", "emitSocketArgs"}

\* which helpers pass a callback to socket.emit and await it
ExpectsReply(kind) == kind # "emitSocketRaw"

\* the test of the catch block (lines 471-476, 246-251, 281-286)
IsTransportFault(msg, connected) ==
    \/ Includes(msg, "timed out")
    \/ Includes(msg, "disconnected")
    \/ Includes(msg, "Not connected")
    \/ ~connected

\* a catch block that resets the state and the token but keeps the socket
TeardownKeepSocket(w) ==
    [w EXCEPT !.cl.state = "disconnected", !.cl.sessionId = Null]

\* "Force full reconnection" (lines 477-483, 252-257, 287-292)
Teardown(w) ==
    LET w1 == [w EXCEPT !.cl.state = "disconnected", !.cl.sessionId = Null]
    IN  IF w1.cl.socket # Null
        THEN [SocketDisconnect(w1, w1.cl.socket) EXCEPT !.cl.socket = Null]
        ELSE w1

\* the call of p ends: it returns res or throws res.msg
Finish(w, p, res) ==
    [w EXCEPT !.cs[p].pc = IF res.ok THEN "done" ELSE "failed",
              !.cs[p].res = res, !.cs[p].att = Null]

\* the error thrown to the caller, with the attempt (1: first, 2: retry) it
\* comes from
Failure(k, msg) == [ok |-> FALSE, from |-> k, msg |-> msg]

\* socket.emit(event, ..., callback) plus the 30 s timer of emission k
EmitWithAck(w, p, k) ==
    LET c == w.cl.socket
    IN  [w EXCEPT !.ch[c].acks = @ \cup {<<p, k>>},
                  !.cs[p].timers = @ \cup {k},
                  !.cs[p].emits = @ + 1,
                  !.cs[p].ch1 = IF k = 1 THEN c ELSE @,
                  !.cs[p].ch2 = IF k = 2 THEN c ELSE @,
                  !.cs[p].pc = IF k = 1 THEN "wait1" ELSE "wait2",
                  !.cs[p].att = Null]

\* socket.emit(event, ...args) of emitSocketRaw, which then returns
EmitRaw(w, p) ==
    Finish([w EXCEPT !.cs[p].emits = @ + 1, !.cs[p].ch1 = w.cl.socket],
           p, [ok |-> TRUE, from |-> 1, msg |-> NoError])

\* after the await of ensureConnected(): wait for attempt `awaited`, or go on
RECURSIVE Emission(_, _, _)
AwaitOrEmit(e, p, k) ==
    IF e.awaited # Null
    THEN [e.w EXCEPT !.cs[p].pc = IF k = 1 THEN "conn1" ELSE "conn2",
                     !.cs[p].att = e.awaited]
    ELSE Emission(e.w, p, k)

\* a catch block that also wraps the retry
EmissionFailedRetryAgain(w, p, k, msg) ==
    LET w1 == IF k = 1 THEN [w EXCEPT !.cs[p].err1 = msg] ELSE w
    IN  IF HasRetry(w.cs[p].kind)
             /\ IsTransportFault(msg, SocketConnected(w))
        THEN AwaitOrEmit(
               EnsureConnected([Teardown(w1) EXCEPT !.cs[p].cycles = @ + 1]),
               p, 2)
        ELSE Finish(w1, p, Failure(k, msg))

\* emission k of p has failed with msg: the catch block of modifyDocument,
\* emitSocket and emitSocketArgs on the first emission, the caller otherwise
EmissionFailed(w, p, k, msg) ==
    LET w1 == IF k = 1 THEN [w EXCEPT !.cs[p].err1 = msg] ELSE w
    IN  IF k = 1 /\ HasRetry(w.cs[p].kind)
             /\ IsTransportFault(msg, SocketConnected(w))
        THEN AwaitOrEmit(
               EnsureConnected([Teardown(w1) EXCEPT !.cs[p].cycles = @ + 1]),
               p, 2)
        ELSE Finish(w1, p, Failure(k, msg))

\* _emitModifyDocument / _emitSocket / _emitSocketArgs, and the bodies of
\* emitSocketCallback and emitSocketRaw after their ensureConnected()
Emission(w, p, k) ==
    IF ~SocketConnected(w) THEN EmissionFailed(w, p, k, NotConnectedMsg)
    ELSE IF ExpectsReply(w.cs[p].kind) THEN EmitWithAck(w, p, k)
    ELSE EmitRaw(w, p)

\* the teardown in a catch block is followed by an ensureConnected() that
\* may need a new attempt: keep it within the bound
RetryInBound(w) == w.cl.connectPromise # Null \/ w.n < MaxAttempts

\* a tool handler invokes modifyDocument or one of the helpers
StartCall(p, kind) ==
    /\ Quiescent
    /\ call[p].pc = "idle"
    /\ CanEnsure(World)
    /\ Becomes(AwaitOrEmit(
         EnsureConnected([World EXCEPT !.cs[p].kind = kind]), p, 1))

\* modifyDocument with its first ensureConnected() inside the try block
ResumeInsideTry(p) ==
    /\ Resumable(p)
    /\ RetryInBound(World)
    /\ LET k == IF call[p].pc = "conn1" THEN 1 ELSE 2
           a == call[p].att
       IN  IF attempt[a].pc = "rejected"
           THEN Becomes(EmissionFailed(World, p, k, attempt[a].err))
           ELSE Becomes(Emission(World, p, k))

\* the attempt awaited by p has settled: p continues after its await
Resume(p) ==
    /\ Resumable(p)
    /\ LET k == IF call[p].pc = "conn1" THEN 1 ELSE 2
           a == call[p].att
       IN  IF attempt[a].pc = "rejected"
           THEN Becomes(Finish(World, p, Failure(k, attempt[a].err)))
           ELSE /\ RetryInBound(World)
                /\ Becomes(Emission(World, p, k))

\* the reply the remote sends to emission k of p: a result, or an error
\* object with or without a message
Replies == {[error |-> FALSE, message |-> AbsentMsg]}
           \cup {[error |-> TRUE, message |-> m] : m \in ReplyMessages}

\* a reply handed to another call that is waiting for one
OnReplyMisrouted(w, p, k, reply) ==
    LET w1 == [w EXCEPT !.cs[p].timers = @ \ {k}]
        others == {x \in Procs : x # p /\ w.cs[x].pc \in {"wait1", "wait2"}}
    IN  IF others = {} THEN w1
        ELSE LET q == CHOOSE x \in others : \A y \in others : x <= y
             IN  Finish(w1, q, [ok |-> TRUE,
                                from |-> IF w.cs[q].pc = "wait1" THEN 1 ELSE 2,
                                msg |-> NoError])

\* a reply that settles the call whether or not the emission is waiting
OnReplyOverrides(w, p, k, reply) ==
    Finish([w EXCEPT !.cs[p].timers = @ \ {k}], p,
           [ok |-> TRUE, from |-> k, msg |-> NoError])

\* the callback passed to socket.emit runs with `reply` (lines 510-519,
\* 383-386, 314-317, 452-455)
OnReply(w, p, k, reply) ==
    LET w1 == [w EXCEPT !.cs[p].timers = @ \ {k}]
        waiting == w.cs[p].pc = (IF k = 1 THEN "wait1" ELSE "wait2")
    IN  IF ~waiting THEN w1
        ELSE IF w.cs[p].kind = "modifyDocument" /\ reply.error
        THEN EmissionFailed(w1, p, k,
               IF reply.message = AbsentMsg THEN UnknownFoundryErrorMsg
               ELSE reply.message)
        ELSE Finish(w1, p, [ok |-> TRUE, from |-> k, msg |-> NoError])

ReplyEvent(p, k, reply) ==
    /\ Quiescent
    /\ \E c \in Attempts :
         /\ <<p, k>> \in chan[c].acks
         /\ RetryInBound(World)
         /\ Becomes(OnReply([World EXCEPT !.ch[c].acks = @ \ {<<p, k>>}],
                            p, k, reply))

\* the 30 s timer of emission k of p fires
EmitTimeout(p, k) ==
    /\ Quiescent
    /\ k \in call[p].timers
    /\ RetryInBound(World)
    /\ Becomes(LET w1 == [World EXCEPT !.cs[p].timers = @ \ {k}]
               IN  IF call[p].pc = (IF k = 1 THEN "wait1" ELSE "wait2")
                   THEN EmissionFailed(w1, p, k, EmitTimeoutMsg)
                   ELSE w1)

\* ------------------------------------------------------------ FoundryRpc
Methods == {"eval"}
\* timeoutMs as it is printed in the error text; "15000ms" is the default
Timeouts == {"15000ms", "5000ms"}
RpcTimeoutMsg(method, timeoutMs) ==
    <<"RPC call", method, "timed out after", timeoutMs>>
ShutdownMsg == <<"RPC system shutting down">>

\* what an rpc-response carries besides its id: the success flag and the
\* result or error
Payloads == {[success |-> TRUE, result |-> "first"],
             [success |-> FALSE, result |-> "second"]}
\* requestId 0 is an id this process never generates
RequestIds == 0..NumRpc
Messages ==
    [type : {"rpc-response"}, requestId : RequestIds, payload : Payloads]
    \cup [type : {"rpc-request"}, requestId : {0}, payload : {NoPayload}]

\* Map.set and Map.delete
Put(m, k, v) == [i \in DOMAIN m \cup {k} |-> IF i = k THEN v ELSE m[i]]
Remove(m, k) == [i \in DOMAIN m \ {k} |-> m[i]]

\* an id generator that repeats itself
RandomUUIDRepeated(w) == 1

\* randomUUID(): a value never drawn before
RandomUUID(w) == w.uu + 1

\* resolve(res) or reject(res) of the promise call() returned to r: every
\* invocation is counted, the first one settles the promise
Settle(w, r, outcome, by, res) ==
    IF w.rs[r].promise \in {"resolved", "rejected"}
    THEN [w EXCEPT !.rs[r].fired = @ + 1]
    ELSE [w EXCEPT !.rs[r].fired = @ + 1, !.rs[r].promise = outcome,
                   !.rs[r].by = by,
                   !.rs[r].res = IF outcome = "resolved" THEN res
                                 ELSE NoPayload,
                   !.rs[r].err = IF outcome = "rejected" THEN res
                                 ELSE NoError]

\* ensureListener without the test of listenerAttached
EnsureListenerAlways(w) ==
    IF w.cl.socket = Null
    THEN [threw |-> TRUE,
          w |-> [w EXCEPT !.rpc.messageHandler = TRUE, !.rpc.attachedOn = Null]]
    ELSE [threw |-> FALSE,
          w |-> [w EXCEPT !.rpc.messageHandler = TRUE,
                          !.rpc.attachedOn = w.cl.socket,
                          !.ch[w.cl.socket].rpcL = @ + 1,
                          !.rpc.listenerAttached = TRUE]]

\* ensureListener() (lines 66-74); onModuleMessage throws without a socket
EnsureListener(w) ==
    IF w.rpc.listenerAttached THEN [threw |-> FALSE, w |-> w]
    ELSE IF w.cl.socket = Null
    THEN [threw |-> TRUE,
          w |-> [w EXCEPT !.rpc.messageHandler = TRUE, !.rpc.attachedOn = Null]]
    ELSE [threw |-> FALSE,
          w |-> [w EXCEPT !.rpc.messageHandler = TRUE,
                          !.rpc.attachedOn = w.cl.socket,
                          !.ch[w.cl.socket].rpcL = @ + 1,
                          !.rpc.listenerAttached = TRUE]]

\* handleMessage without pending.delete
HandleMessageKeepEntry(w, msg) ==
    IF msg.type # "rpc-response" THEN w
    ELSE IF msg.requestId \notin DOMAIN w.rpc.pending THEN w
    ELSE LET r == w.rpc.pending[msg.requestId].owner
         IN  Settle([w EXCEPT !.rs[r].timer = NoTimer],
                    r, "resolved", "response", msg.payload)

\* handleMessage without clearTimeout
HandleMessageKeepTimer(w, msg) ==
    IF msg.type # "rpc-response" THEN w
    ELSE IF msg.requestId \notin DOMAIN w.rpc.pending THEN w
    ELSE LET r == w.rpc.pending[msg.requestId].owner
         IN  Settle([w EXCEPT !.rpc.pending = Remove(@, msg.requestId)],
                    r, "resolved", "response", msg.payload)

\* handleMessage that hands a response with an unknown id to the oldest
\* pending request
HandleMessageUncorrelated(w, msg) ==
    IF msg.type # "rpc-response" THEN w
    ELSE IF DOMAIN w.rpc.pending = {} THEN w
    ELSE LET i == IF msg.requestId \in DOMAIN w.rpc.pending
                  THEN msg.requestId
                  ELSE CHOOSE x \in DOMAIN w.rpc.pending :
                         \A y \in DOMAIN w.rpc.pending : x <= y
             r == w.rpc.pending[i].owner
         IN  Settle([w EXCEPT !.rs[r].timer = NoTimer,
                              !.rpc.pending = Remove(@, i)],
                    r, "resolved", "response", msg.payload)

\* handleMessage that rejects the call when the response reports a failure
HandleMessageRejectFailure(w, msg) ==
    IF msg.type # "rpc-response" THEN w
    ELSE IF msg.requestId \notin DOMAIN w.rpc.pending THEN w
    ELSE LET r == w.rpc.pending[msg.requestId].owner
             w1 == [w EXCEPT !.rs[r].timer = NoTimer,
                             !.rpc.pending = Remove(@, msg.requestId)]
         IN  IF msg.payload.success
             THEN Settle(w1, r, "resolved", "response", msg.payload)
             ELSE Settle(w1, r, "rejected", "response", <<msg.payload.result>>)

\* handleMessage(data) (lines 76-90)
HandleMessage(w, msg) ==
    IF msg.type # "rpc-response" THEN w
    ELSE IF msg.requestId \notin DOMAIN w.rpc.pending THEN w
    ELSE LET r == w.rpc.pending[msg.requestId].owner
         IN  Settle([w EXCEPT !.rs[r].timer = NoTimer,
                              !.rpc.pending = Remove(@, msg.requestId)],
                    r, "resolved", "response", msg.payload)

\* the catch of call() without clearTimeout
EmitRejectedKeepTimer(w, r, err) ==
    Settle([w EXCEPT !.rpc.pending = Remove(@, w.rs[r].id),
                     !.rs[r].pc = "done", !.rs[r].att = Null],
           r, "rejected", "emission", err)

\* the catch of call() (lines 125-129): emitModuleMessage rejected with err
EmitRejected(w, r, err) ==
    Settle([w EXCEPT !.rs[r].timer = NoTimer,
                     !.rpc.pending = Remove(@, w.rs[r].id),
                     !.rs[r].pc = "done", !.rs[r].att = Null],
           r, "rejected", "emission", err)

\* emitModuleMessage after its ensureConnected() (lines 423-426)
EmitOrFail(w, r) ==
    IF ~SocketConnected(w) THEN EmitRejected(w, r, NotConnectedMsg)
    ELSE [w EXCEPT !.rs[r].sent = TRUE, !.rs[r].pc = "done",
                   !.rs[r].att = Null]

\* emitModuleMessage awaiting connect() whether or not the client is ready
EmitModuleMessageReconnects(w, r) ==
    LET e == EnsureConnectedNoFastPath(w)
    IN  IF e.awaited # Null
        THEN [e.w EXCEPT !.rs[r].pc = "emitting", !.rs[r].att = e.awaited]
        ELSE EmitOrFail(e.w, r)

\* emitModuleMessage (lines 418-427)
EmitModuleMessage(w, r) ==
    LET e == EnsureConnected(w)
    IN  IF e.awaited # Null
        THEN [e.w EXCEPT !.rs[r].pc = "emitting", !.rs[r].att = e.awaited]
        ELSE EmitOrFail(e.w, r)

\* the timer callback without pending.delete
OnRpcTimeoutKeepEntry(w, r) ==
    Settle([w EXCEPT !.rs[r].timer = NoTimer],
           r, "rejected", "timeout",
           RpcTimeoutMsg(w.rs[r].timer.method, w.rs[r].timer.timeoutMs))

\* the timer callback of call() (lines 113-121)
OnRpcTimeout(w, r) ==
    Settle([w EXCEPT !.rs[r].timer = NoTimer,
                     !.rpc.pending = Remove(@, w.rs[r].id)],
           r, "rejected", "timeout",
           RpcTimeoutMsg(w.rs[r].timer.method, w.rs[r].timer.timeoutMs))

\* call() after its await of ensureConnected() (lines 101-130)
Proceed(w, r) ==
    LET l == EnsureListener(w)
        id == RandomUUID(l.w)
    IN  IF l.threw
        THEN Settle([l.w EXCEPT !.rs[r].pc = "done", !.rs[r].att = Null,
                                !.rs[r].args = NoTimer],
                    r, "rejected", "listener", NotConnectedMsg)
        ELSE EmitModuleMessage(
               [l.w EXCEPT !.uu = @ + 1,
                           !.rs[r].id = id,
                           !.rs[r].promise = "pending",
                           !.rs[r].timer = l.w.rs[r].args,
                           !.rs[r].args = NoTimer,
                           !.rpc.pending = Put(@, id, [owner |-> r])], r)

\* a tool handler invokes rpc.call(method, args, timeoutMs)
RpcCall(r, method, timeoutMs) ==
    /\ Quiescent
    /\ rcall[r].pc = "idle"
    /\ CanEnsure(World)
    /\ LET e == EnsureConnected(
                  [World EXCEPT !.rs[r].args = [method |-> method,
                                                timeoutMs |-> timeoutMs]])
       IN  Becomes(IF e.awaited # Null
                   THEN [e.w EXCEPT !.rs[r].pc = "conn",
                                    !.rs[r].att = e.awaited]
                   ELSE Proceed(e.w, r))

\* the attempt awaited by r has settled: call() or emitModuleMessage
\* continues after its await
RpcResume(r) ==
    /\ RpcResumable(r)
    /\ CanEnsure(World)
    /\ LET a == rcall[r].att
       IN  Becomes(
             IF rcall[r].pc = "conn"
             THEN IF attempt[a].pc = "rejected"
                  THEN Settle([World EXCEPT !.rs[r].pc = "done",
                                            !.rs[r].att = Null,
                                            !.rs[r].args = NoTimer],
                              r, "rejected", "connect", attempt[a].err)
                  ELSE Proceed(World, r)
             ELSE IF attempt[a].pc = "rejected"
                  THEN EmitRejected(World, r, attempt[a].err)
                  ELSE EmitOrFail(World, r))

\* what the channel delivered, recorded per call (see IdleRpc)
Observe(w, before, msg) ==
    IF msg.type # "rpc-response" THEN w
    ELSE [w EXCEPT !.rs = [r \in RProcs |->
            [@[r] EXCEPT
               !.late = @ \/ (before.rs[r].promise \in {"resolved", "rejected"}
                               /\ before.rs[r].id = msg.requestId),
               !.strayed = @ \/ (before.rs[r].promise = "pending"
                                  /\ msg.requestId \notin
                                       DOMAIN before.rpc.pending)]]]

\* a message arrives on the module channel of channel c, on which a
\* listener of the correlator is registered
ModuleMessage(c, msg) ==
    /\ Quiescent
    /\ chan[c].st = "up"
    /\ chan[c].rpcL > 0
    /\ Becomes(Observe(HandleMessage(World, msg), World, msg))

\* the timer of r's call fires
RpcTimeout(r) ==
    /\ Quiescent
    /\ rcall[r].timer # NoTimer
    /\ Becomes(OnRpcTimeout(World, r))

\* the loop of destroy() (lines 184-187) over the entries in the set S
RECURSIVE RejectAll(_, _)
RejectAll(w, S) ==
    IF S = {} THEN w
    ELSE LET i == CHOOSE x \in S : \A y \in S : x <= y
             r == w.rpc.pending[i].owner
         IN  RejectAll(Settle([w EXCEPT !.rs[r].timer = NoTimer],
                              r, "rejected", "destroy", ShutdownMsg),
                       S \ {i})

\* the loop of destroy() without clearTimeout
RECURSIVE RejectAllKeepTimers(_, _)
RejectAllKeepTimers(w, S) ==
    IF S = {} THEN w
    ELSE LET i == CHOOSE x \in S : \A y \in S : x <= y
             r == w.rpc.pending[i].owner
         IN  RejectAllKeepTimers(
               Settle(w, r, "rejected", "destroy", ShutdownMsg), S \ {i})

\* offModuleMessage (lines 407-412): socket?.off removes the handler only
\* from the channel the socket field holds now
OffModuleMessage(w) ==
    IF w.cl.socket # Null /\ w.cl.socket = w.rpc.attachedOn
    THEN [w EXCEPT !.ch[w.cl.socket].rpcL = @ - 1]
    ELSE w

\* destroy() without clearTimeout
DestroyRpcKeepTimers(w) ==
    LET w1 == [RejectAllKeepTimers(w, DOMAIN w.rpc.pending)
                 EXCEPT !.rpc.pending = NoPending]
    IN  IF w1.rpc.messageHandler
        THEN [OffModuleMessage(w1) EXCEPT !.rpc.messageHandler = FALSE,
                                          !.rpc.attachedOn = Null,
                                          !.rpc.listenerAttached = FALSE]
        ELSE w1

\* destroy() (lines 183-195)
DestroyRpc(w) ==
    LET w1 == [RejectAll(w, DOMAIN w.rpc.pending)
                 EXCEPT !.rpc.pending = NoPending]
    IN  IF w1.rpc.messageHandler
        THEN [OffModuleMessage(w1) EXCEPT !.rpc.messageHandler = FALSE,
                                          !.rpc.attachedOn = Null,
                                          !.rpc.listenerAttached = FALSE]
        ELSE w1

Destroy ==
    /\ Quiescent
    /\ Becomes(DestroyRpc(World))

\* ------------------------------------------------------ FoundryRpc.ping
\* what an rpc-pong carries besides its id
Versions == {"v1", "v2"}
PongMessages ==
    [type : {"rpc-pong"}, requestId : 0..NumPing, moduleVersion : Versions]
    \cup [type : {"rpc-response"}, requestId : 0..NumPing,
          moduleVersion : {"none"}]

\* the promise of line 146 settles, or the invocation ends in its catch:
\* only the first of these decides what ping() returns
PingSettle(w, q, result, by, version) ==
    IF w.ps[q].result # "none" THEN w
    ELSE [w EXCEPT !.ps[q].result = result, !.ps[q].by = by,
                   !.ps[q].version = version,
                   !.ps[q].promise = IF @ = "pending" THEN "settled" ELSE @]

\* an exception inside the try block that nothing catches
PingThrownUncaught(w, q, by) ==
    PingSettle(w, q, "rejected", by, "none")

\* an exception inside the try block: the catch of lines 175-177
PingThrown(w, q, by) ==
    PingSettle(w, q, "dead", by, "none")

\* offModuleMessage(MODULE_NAME, pongHandler): socket?.off on the channel
\* the socket field holds now
OffPongHandler(w, q) ==
    IF w.cl.socket # Null
    THEN [w EXCEPT !.ch[w.cl.socket].pongL = @ \ {q}]
    ELSE w

\* the catch of lines 169-173: emitModuleMessage rejected
PingEmitRejected(w, q) ==
    PingSettle(OffPongHandler([w EXCEPT !.ps[q].timer = FALSE,
                                        !.ps[q].pc = "done",
                                        !.ps[q].att = Null], q),
               q, "dead", "emission", "none")

\* emitModuleMessage after its ensureConnected() (lines 423-426)
PingEmitOrFail(w, q) ==
    IF ~SocketConnected(w) THEN PingEmitRejected(w, q)
    ELSE [w EXCEPT !.ps[q].sent = TRUE, !.ps[q].pc = "done",
                   !.ps[q].att = Null]

\* emitModuleMessage(MODULE_NAME, ping) (lines 168-169, 418-427)
PingEmit(w, q) ==
    LET e == EnsureConnected(w)
    IN  IF e.awaited # Null
        THEN [e.w EXCEPT !.ps[q].pc = "emitting", !.ps[q].att = e.awaited]
        ELSE PingEmitOrFail(e.w, q)

\* ping() after its await of ensureConnected() (lines 144-174): the timer
\* is armed before onModuleMessage, which throws without a socket
PingProceed(w, q) ==
    LET w1 == [w EXCEPT !.uu = @ + 1, !.ps[q].id = RandomUUID(w),
                        !.ps[q].timer = TRUE, !.ps[q].promise = "pending"]
    IN  IF w1.cl.socket = Null
        THEN PingThrown([w1 EXCEPT !.ps[q].pc = "done", !.ps[q].att = Null],
                        q, "listener")
        ELSE PingEmit([w1 EXCEPT !.ch[w1.cl.socket].pongL = @ \cup {q}], q)

\* pongHandler(data) of ping q (lines 147-159)
PongHandler(w, q, msg) ==
    IF msg.type = "rpc-pong" /\ msg.requestId = w.ps[q].id
    THEN PingSettle(OffPongHandler([w EXCEPT !.ps[q].timer = FALSE], q),
                    q, "alive", "pong", msg.moduleVersion)
    ELSE w

\* the pong handlers registered on a channel, one after the other
RECURSIVE PongHandlers(_, _, _)
PongHandlers(w, S, msg) ==
    IF S = {} THEN w
    ELSE LET q == CHOOSE x \in S : \A y \in S : x <= y
         IN  PongHandlers(PongHandler(w, q, msg), S \ {q}, msg)

\* what the channel delivered, recorded per ping (see IdlePing)
ObservePong(w, before, c, msg) ==
    [w EXCEPT !.ps = [q \in PProcs |->
       [@[q] EXCEPT !.got =
          IF /\ @ = "none"
             /\ msg.type = "rpc-pong"
             /\ msg.requestId = before.ps[q].id
             /\ q \in before.ch[c].pongL
             /\ before.ps[q].result = "none"
             /\ before.ps[q].promise = "pending"
          THEN msg.moduleVersion ELSE @]]]

\* a tool handler invokes rpc.ping(timeoutMs)
PingCall(q) ==
    /\ Quiescent
    /\ pcall[q].pc = "idle"
    /\ CanEnsure(World)
    /\ LET e == EnsureConnected(World)
       IN  Becomes(IF e.awaited # Null
                   THEN [e.w EXCEPT !.ps[q].pc = "conn",
                                    !.ps[q].att = e.awaited]
                   ELSE PingProceed(e.w, q))

\* the attempt awaited by q has settled: ping() or emitModuleMessage
\* continues after its await
PingResume(q) ==
    /\ PingResumable(q)
    /\ CanEnsure(World)
    /\ LET a == pcall[q].att
       IN  Becomes(
             IF pcall[q].pc = "conn"
             THEN IF attempt[a].pc = "rejected"
                  THEN PingThrown([World EXCEPT !.ps[q].pc = "done",
                                                !.ps[q].att = Null],
                                  q, "connect")
                  ELSE PingProceed(World, q)
             ELSE IF attempt[a].pc = "rejected"
                  THEN PingEmitRejected(World, q)
                  ELSE PingEmitOrFail(World, q))

\* a message arrives on the module channel of channel c, on which pong
\* handlers are registered
PongMessage(c, msg) ==
    /\ Quiescent
    /\ chan[c].st = "up"
    /\ chan[c].pongL # {}
    /\ Becomes(ObservePong(PongHandlers(World, chan[c].pongL, msg),
                           World, c, msg))

\* the timer of ping q fires (lines 161-164)
PingTimeout(q) ==
    /\ Quiescent
    /\ pcall[q].timer
    /\ Becomes(PingSettle(OffPongHandler([World EXCEPT !.ps[q].timer = FALSE],
                                         q),
                          q, "dead", "timeout", "none"))

\* ------------------------------------------------------- specifications
Environment ==
    \/ \E a \in Attempts :
         \E r \in {"fetchFailed", "httpError", "inactive", "active"} :
           FetchStatus(a, r)
    \/ \E a \in Attempts :
         \E r \in {"noCookie", "badCookie", "session"} : Authenticate(a, r)
    \/ \E c \in Attempts : ChanConnect(c)
    \/ \E c \in Attempts : \E ok \in BOOLEAN : SessionEvent(c, ok)
    \/ \E c \in Attempts : ConnectError(c)
    \/ \E c \in Attempts : HandshakeTimeout(c)
    \/ \E c \in Attempts :
         \E reason \in {"transport close", "io server disconnect"} :
           DisconnectEvent(c, reason)
    \/ \E c \in Attempts : ReconnectEvent(c)
    \/ \E c \in Attempts : ReconnectTimeout(c)

Next ==
    \/ Environment
    \/ \E p \in Procs : StartCall(p, "modifyDocument")
    \/ \E p \in Procs : Resume(p)
    \/ \E p \in Procs : \E k \in {1, 2} : \E r \in Replies :
         ReplyEvent(p, k, r)
    \/ \E p \in Procs : \E k \in {1, 2} : EmitTimeout(p, k)

Spec == Init /\ [][Next]_vars

\* The correlator over the same connection manager.  Here the channel
\* library's automatic reconnection is left out: a channel that loses its
\* transport stays down, and the client opens another one.
RpcEnvironment ==
    \/ \E a \in Attempts :
         \E r \in {"fetchFailed", "httpError", "inactive", "active"} :
           FetchStatus(a, r)
    \/ \E a \in Attempts :
         \E r \in {"noCookie", "badCookie", "session"} : Authenticate(a, r)
    \/ \E c \in Attempts : ChanConnect(c)
    \/ \E c \in Attempts : \E ok \in BOOLEAN : SessionEvent(c, ok)
    \/ \E c \in Attempts : ConnectError(c)
    \/ \E c \in Attempts : HandshakeTimeout(c)
    \/ \E c \in Attempts :
         \E reason \in {"transport close", "io server disconnect"} :
           DisconnectEvent(c, reason)

RpcNext ==
    \/ RpcEnvironment
    \/ \E r \in RProcs : \E m \in Methods : \E t \in Timeouts :
         RpcCall(r, m, t)
    \/ \E r \in RProcs : RpcResume(r)
    \/ \E c \in Attempts : \E msg \in Messages : ModuleMessage(c, msg)
    \/ \E r \in RProcs : RpcTimeout(r)
    \/ Destroy

RpcSpec == Init /\ [][RpcNext]_vars

\* modifyDocument when the local timers eventually fire and the
\* continuations of its awaits run; nothing is assumed of the remote, which
\* may leave any request unanswered.
LiveSpec ==
    /\ Spec
    /\ \A p \in Procs : WF_vars(Resume(p))
    /\ \A p \in Procs : \A k \in {1, 2} : WF_vars(EmitTimeout(p, k))
    /\ \A c \in Attempts : WF_vars(HandshakeTimeout(c))
    /\ \A c \in Attempts : WF_vars(ReconnectTimeout(c))

\* The correlator when its timers eventually fire and the continuations of
\* its awaits run; nothing is assumed of the remote.
RpcFairSpec ==
    /\ RpcSpec
    /\ \A r \in RProcs : WF_vars(RpcTimeout(r)) /\ WF_vars(RpcResume(r))

\* ping() over the same connection manager
PingNext ==
    \/ RpcEnvironment
    \/ \E q \in PProcs : PingCall(q)
    \/ \E q \in PProcs : PingResume(q)
    \/ \E c \in Attempts : \E msg \in PongMessages : PongMessage(c, msg)
    \/ \E q \in PProcs : PingTimeout(q)

PingSpec == Init /\ [][PingNext]_vars

\* the generic socket helpers over the same connection manager
HelperKinds == Kinds \ {"modifyDocument"}

HelperNext ==
    \/ RpcEnvironment
    \/ \E p \in Procs : \E kind \in HelperKinds : StartCall(p, kind)
    \/ \E p \in Procs : Resume(p)
    \/ \E p \in Procs : \E k \in {1, 2} : \E r \in Replies :
         ReplyEvent(p, k, r)
    \/ \E p \in Procs : \E k \in {1, 2} : EmitTimeout(p, k)

HelperSpec == Init /\ [][HelperNext]_vars

\* ------------------------------------------- FoundryClient.getActiveUsers
\* the user ids a userActivity event carries
Users == {"u1", "u2"}

\* getActiveUsers after its await of ensureConnected() (lines 346-366):
\* register the handler, emit the request, arm the 500 ms timer
CollectUsers(w, q) ==
    IF ~SocketConnected(w)
    THEN [w EXCEPT !.us[q].pc = "failed", !.us[q].att = Null,
                   !.us[q].err = NotConnectedMsg]
    ELSE [w EXCEPT !.us[q].pc = "window", !.us[q].att = Null,
                   !.us[q].ch = w.cl.socket, !.us[q].on = w.cl.socket,
                   !.us[q].timer = TRUE]

\* a tool handler invokes getActiveUsers()
GetActiveUsers(q) ==
    /\ Quiescent
    /\ ucall[q].pc = "idle"
    /\ CanEnsure(World)
    /\ LET e == EnsureConnected(World)
       IN  Becomes(IF e.awaited # Null
                   THEN [e.w EXCEPT !.us[q].pc = "conn",
                                    !.us[q].att = e.awaited]
                   ELSE CollectUsers(e.w, q))

\* the attempt awaited by q has settled: getActiveUsers continues
UsersResume(q) ==
    /\ UsersResumable(q)
    /\ LET a == ucall[q].att
       IN  Becomes(IF attempt[a].pc = "rejected"
                   THEN [World EXCEPT !.us[q].pc = "failed",
                                      !.us[q].att = Null,
                                      !.us[q].err = attempt[a].err]
                   ELSE CollectUsers(World, q))

\* channel c delivers a userActivity event of user u: every handler
\* registered on c pushes it (lines 353-355)
UserActivity(c, u) ==
    /\ Quiescent
    /\ chan[c].st = "up"
    /\ \E q \in UProcs : ucall[q].on = c
    /\ \A q \in UProcs : ucall[q].on = c => Len(ucall[q].users) < MaxEvents
    /\ Becomes([World EXCEPT !.us = [q \in UProcs |->
         [@[q] EXCEPT
            !.users = IF ucall[q].on = c THEN Append(@, u) ELSE @,
            !.arrived = IF ucall[q].pc = "window" /\ ucall[q].ch = c
                        THEN Append(@, u) ELSE @]]])

\* the 500 ms timer of q fires (lines 362-365): socket?.off on the channel
\* the socket field holds now, then resolve(users)
WindowEnd(q) ==
    /\ Quiescent
    /\ ucall[q].timer
    /\ Becomes([World EXCEPT
         !.us[q].timer = FALSE,
         !.us[q].on = IF client.socket # Null /\ client.socket = @
                      THEN Null ELSE @,
         !.us[q].pc = "done",
         !.us[q].seen = ucall[q].users])

\* getActiveUsers over the connection manager
UsersNext ==
    \/ Environment
    \/ \E q \in UProcs : GetActiveUsers(q)
    \/ \E q \in UProcs : UsersResume(q)
    \/ \E c \in Attempts : \E u \in Users : UserActivity(c, u)
    \/ \E q \in UProcs : WindowEnd(q)

UsersSpec == Init /\ [][UsersNext]_vars

\* ---------------------------------- FoundryClient.executeMacroWithResult
NoUserIdMsg == <<"Not authenticated", "no userId available">>
CreateFailedMsg == <<"Failed to create temporary macro">>
MacroTimedOutMsg == <<"Macro execution", "timed out">>
SyntaxErrorMsg == <<"SyntaxError">>
ParsedData == <<"data">>

Returned(kind, val) == [kind |-> kind, val |-> val]
Thrown(msg) == [kind |-> "throw", val |-> msg]

\* what a reply to a modifyDocument of the operation carries: no document,
\* one whose content parses as JSON, one whose content does not
Found == {"none", "json", "garbage"}

\* executeMacroWithResult invokes modifyDocument: a new invocation, whose
\* promise the callbacks of the previous one can no longer settle
ModifyDocument(w) ==
    LET w1 == [w EXCEPT
                 !.cs[MacroSlot] = [IdleCall EXCEPT !.kind = "modifyDocument"],
                 !.ch = [c \in Attempts |->
                          [@[c] EXCEPT !.acks = {x \in @ : x[1] # MacroSlot}]]]
    IN  AwaitOrEmit(EnsureConnected(w1), MacroSlot, 1)

\* the operation returns or throws outside the try block
MacroEnds(w, out) ==
    [w EXCEPT !.ms.pc = IF out.kind = "throw" THEN "failed" ELSE "done",
              !.ms.att = Null, !.ms.ret = out]

\* lines 137-154: the check of the user id, then the create of the macro
MacroAfterConnect(w) ==
    IF w.cl.userId = NoUser
    THEN MacroEnds(w, Returned("failure", NoUserIdMsg))
    ELSE [ModifyDocument(w) EXCEPT !.ms.pc = "create", !.ms.att = Null]

\* the finally block (lines 221-228) is entered after the try block
\* returned or threw `out`: the delete of the macro is started
MacroFinally(w, out) ==
    [ModifyDocument(w) EXCEPT !.ms.pc = "delMacro", !.ms.out = out,
                              !.ms.deletes = @ + 1]

\* a finally block whose delete is not wrapped in try/catch
AfterMacroDeleteUnguarded(w) ==
    IF w.cs[MacroSlot].pc = "failed"
    THEN [MacroEnds(w, Thrown(w.cs[MacroSlot].res.msg))
            EXCEPT !.ms.delFailed = TRUE]
    ELSE MacroEnds(w, w.ms.out)

\* the delete of the macro has settled (lines 223-227): the operation
\* completes as the try block did
AfterMacroDelete(w) ==
    [MacroEnds(w, w.ms.out)
       EXCEPT !.ms.delFailed = (w.cs[MacroSlot].pc = "failed")]

\* the modifyDocument awaited by the operation has settled, its reply
\* carrying `found`: it continues to its next await or to its end
MacroStep(w, found) ==
    LET ok == w.cs[MacroSlot].pc = "done"
        err == w.cs[MacroSlot].res.msg
    IN  CASE w.ms.pc = "create" ->
               IF ~ok THEN MacroEnds(w, Thrown(err))
               ELSE IF found = "none"
                    THEN MacroEnds(w, Returned("failure", CreateFailedMsg))
                    ELSE [ModifyDocument(w) EXCEPT !.ms.pc = "exec",
                                                   !.ms.created = TRUE]
          [] w.ms.pc = "exec" ->
               IF ~ok THEN MacroFinally(w, Thrown(err))
               ELSE [w EXCEPT !.ms.pc = "sleep"]
          [] w.ms.pc = "poll" ->
               IF ~ok THEN MacroFinally(w, Thrown(err))
               ELSE IF found = "none"
                    THEN IF w.ms.polls + 1 < MaxPolls
                         THEN [w EXCEPT !.ms.pc = "sleep",
                                        !.ms.polls = @ + 1]
                         ELSE MacroFinally([w EXCEPT !.ms.polls = @ + 1],
                                Returned("failure", MacroTimedOutMsg))
                    ELSE IF found = "garbage"
                         THEN MacroFinally(w, Thrown(SyntaxErrorMsg))
                         ELSE [ModifyDocument(w) EXCEPT !.ms.pc = "delMsg"]
          [] w.ms.pc = "delMsg" ->
               MacroFinally([w EXCEPT !.ms.msgDelFailed = ~ok],
                            Returned("success", ParsedData))
          [] OTHER -> AfterMacroDelete(w)

\* a tool handler invokes executeMacroWithResult()
ExecuteMacroWithResult ==
    /\ Quiescent
    /\ mcall.pc = "idle"
    /\ call[MacroSlot].pc = "idle"
    /\ CanEnsure(World)
    /\ LET e == EnsureConnected(World)
       IN  Becomes(IF e.awaited # Null
                   THEN [e.w EXCEPT !.ms.pc = "conn", !.ms.att = e.awaited]
                   ELSE MacroAfterConnect(e.w))

\* the attempt awaited at line 135 has settled
MacroResume ==
    /\ MacroResumable
    /\ IF attempt[mcall.att].pc = "rejected"
       THEN Becomes(MacroEnds(World, Thrown(attempt[mcall.att].err)))
       ELSE /\ CanEnsure(World)
            /\ Becomes(MacroAfterConnect(World))

\* the continuation after an awaited modifyDocument
MacroContinue(found) ==
    /\ MacroSettled
    /\ CanEnsure(World)
    /\ Becomes(MacroStep(World, found))

\* the 500 ms timer of a poll iteration fires (lines 181-185)
PollTimer ==
    /\ Quiescent
    /\ mcall.pc = "sleep"
    /\ CanEnsure(World)
    /\ Becomes([ModifyDocument(World) EXCEPT !.ms.pc = "poll"])

\* executeMacroWithResult over the connection manager
MacroNext ==
    \/ Environment
    \/ ExecuteMacroWithResult
    \/ MacroResume
    \/ \E found \in Found : MacroContinue(found)
    \/ PollTimer
    \/ Resume(MacroSlot)
    \/ \E k \in {1, 2} : \E r \in Replies : ReplyEvent(MacroSlot, k, r)
    \/ \E k \in {1, 2} : EmitTimeout(MacroSlot, k)

MacroSpec == Init /\ [][MacroNext]_vars

\* disconnect() (lines 71-78)
Disconnect(w) ==
    LET w1 == IF w.cl.socket # Null
              THEN [SocketDisconnect(w, w.cl.socket) EXCEPT !.cl.socket = Null]
              ELSE w
    IN  [w1 EXCEPT !.cl.sessionId = Null, !.cl.state = "disconnected",
                   !.sh = TRUE]

\* the shutdown handler, or any other holder of the client, invokes
\* disconnect()
DisconnectCall ==
    /\ Quiescent
    /\ Becomes(Disconnect(World))

\* modifyDocument over a client that may be disconnected explicitly
ShutdownNext ==
    \/ RpcEnvironment
    \/ \E p \in Procs : StartCall(p, "modifyDocument")
    \/ \E p \in Procs : Resume(p)
    \/ \E p \in Procs : \E k \in {1, 2} : \E r \in Replies :
         ReplyEvent(p, k, r)
    \/ \E p \in Procs : \E k \in {1, 2} : EmitTimeout(p, k)
    \/ DisconnectCall

ShutdownSpec == Init /\ [][ShutdownNext]_vars

\* ------------------------------------------------------------ properties
InFlight ==
    {a \in Attempts :
       attempt[a].pc \in {"fetchStatus", "authenticate", "connectSocket"}}

Awaiting(p) == call[p].pc \in {"conn1", "conn2"}

SingleFlightInv ==
    /\ Cardinality(InFlight) <= 1
    /\ InFlight = IF client.connectPromise = Null THEN {}
                  ELSE {client.connectPromise}
    /\ \A p \in Procs :
         Awaiting(p) /\ ~Resumable(p) => call[p].att = client.connectPromise

OneAttemptStep ==
    started' # started => InFlight = {} /\ started' = started + 1

SharedOutcomeStep ==
    \A p \in Procs :
      Resumable(p) /\ call'[p] # call[p] =>
        IF attempt[call[p].att].pc = "rejected"
        THEN /\ call'[p].pc = "failed"
             /\ call'[p].res.msg = attempt[call[p].att].err
        ELSE call'[p].emits = call[p].emits + 1

\* C1: while the client is not ready, any number of ensureConnected() calls
\* run one connection attempt (a new attempt starts only when none is in
\* flight, and every caller awaits the attempt in flight), and every caller
\* gets that attempt's outcome: its error if it fails, and goes on to emit
\* if it succeeds.
C1_SingleFlight ==
    []SingleFlightInv /\ [][OneAttemptStep /\ SharedOutcomeStep]_vars

C1_Witness ==
    \E p, q \in Procs :
      /\ p # q
      /\ call[p].pc = "conn1" /\ call[q].pc = "conn1"
      /\ call[p].att = call[q].att
      /\ attempt[call[p].att].pc = "connectSocket"
      /\ started = 1

\* C2: a modifyDocument call emits at most twice and tears the connection
\* down at most once; when its first emission timed out and the call
\* returned, it returned the reply to the retry after exactly one teardown;
\* when it failed after a teardown, the error is the retry's.
C2_RetryOnce ==
    \A p \in Procs :
      call[p].kind = "modifyDocument" =>
        /\ call[p].emits <= 2
        /\ call[p].cycles <= 1
        /\ (call[p].pc = "done" /\ call[p].err1 = EmitTimeoutMsg =>
              /\ call[p].res.ok /\ call[p].res.from = 2
              /\ call[p].cycles = 1 /\ call[p].emits = 2)
        /\ (call[p].pc = "failed" /\ call[p].cycles = 1 =>
              call[p].res.from = 2)

C2_Witness ==
    \E p, q \in Procs :
      /\ call[p].pc = "done" /\ call[p].err1 = EmitTimeoutMsg
      /\ call[p].res.from = 2
      /\ call[q].pc = "failed" /\ call[q].err1 = EmitTimeoutMsg
      /\ call[q].emits = 2 /\ call[q].res.msg = EmitTimeoutMsg

\* the texts the first emission fails with when its reply carries an error
ReplyErrorTexts == {UnknownFoundryErrorMsg, PermissionMsg, SniffedMsg}

\* C3: a modifyDocument call whose reply carries an error fails with the
\* embedded message (or the fallback), without teardown, reconnect or
\* second emission, whatever the message text.
C3_ErrorReplyNeverRetried ==
    \A p \in Procs :
      call[p].kind = "modifyDocument" /\ call[p].err1 \in ReplyErrorTexts =>
        /\ call[p].pc = "failed"
        /\ call[p].res.msg = call[p].err1
        /\ call[p].cycles = 0
        /\ call[p].emits = 1

C5_FailedAttemptDisconnected ==
    \A p \in Procs :
      Resumable(p) /\ attempt[call[p].att].pc = "rejected" =>
        client.state = "disconnected"

\* everything but the record of what the channel delivered
RpcView ==
    <<client, attempt, started, chan, call, rpc, pcall, uuids, ucall, mcall,
      shut,
      [r \in RProcs |-> [rcall[r] EXCEPT !.late = FALSE, !.strayed = FALSE]]>>

Settled(r) == rcall[r].promise \in {"resolved", "rejected"}

\* a step that delivers an rpc-response either bears the id of a pending
\* request, which it resolves with its payload, or changes nothing
FirstResponseStep ==
    \A c \in Attempts : \A msg \in Messages :
      ModuleMessage(c, msg) /\ msg.type = "rpc-response" =>
        IF msg.requestId \in DOMAIN rpc.pending
        THEN LET r == rpc.pending[msg.requestId].owner
             IN  /\ rcall'[r].promise = "resolved"
                 /\ rcall'[r].by = "response"
                 /\ rcall'[r].res = msg.payload
                 /\ rcall'[r].fired = 1
                 /\ msg.requestId \notin DOMAIN rpc'.pending
        ELSE (\E r \in RProcs : rcall[r].id = msg.requestId
                                 /\ rcall[r].by = "response")
             => RpcView' = RpcView

\* C6: the first rpc-response bearing a pending call's id resolves the call
\* with its payload; every later response bearing that id changes nothing,
\* and a call resolved by a response has been settled once.
C6_FirstResponseWins ==
    /\ [][FirstResponseStep]_vars
    /\ [](\A r \in RProcs : rcall[r].by = "response" =>
            /\ rcall[r].promise = "resolved"
            /\ rcall[r].fired = 1
            /\ rcall[r].res \in Payloads)

C6_Witness ==
    \E r \in RProcs :
      rcall[r].by = "response" /\ rcall[r].late /\ rcall[r].fired = 1

\* the timer of a call names the method and timeoutMs the call was made
\* with, and a timer that fires rejects with the text that names them
TimeoutStep ==
    /\ \A r \in RProcs : \A m \in Methods : \A t \in Timeouts :
         RpcCall(r, m, t) =>
           /\ rcall'[r].pc = "conn" =>
                rcall'[r].args = [method |-> m, timeoutMs |-> t]
           /\ rcall'[r].timer # NoTimer =>
                rcall'[r].timer = [method |-> m, timeoutMs |-> t]
    /\ \A r \in RProcs :
         RpcResume(r) /\ rcall'[r].timer # NoTimer =>
           rcall'[r].timer = rcall[r].args
    /\ \A r \in RProcs :
         RpcTimeout(r) =>
           /\ rcall'[r].promise = "rejected"
           /\ rcall'[r].by = "timeout"
           /\ rcall'[r].err = <<"RPC call", rcall[r].timer.method,
                                "timed out after", rcall[r].timer.timeoutMs>>
           /\ rcall[r].id \in DOMAIN rpc.pending
           /\ rcall[r].id \notin DOMAIN rpc'.pending

\* C7: a call whose timer fires rejects with the text naming its method and
\* its timeoutMs and its entry leaves the pending set; from then on it stays
\* rejected by the timeout, settled once, with no entry, whatever arrives.
C7_TimeoutRejects ==
    /\ [][TimeoutStep]_vars
    /\ [](\A r \in RProcs : rcall[r].by = "timeout" =>
            /\ rcall[r].promise = "rejected"
            /\ rcall[r].fired = 1
            /\ rcall[r].err \in {RpcTimeoutMsg(m, t) :
                                    m \in Methods, t \in Timeouts}
            /\ rcall[r].id \notin DOMAIN rpc.pending)

C7_Witness ==
    \E r \in RProcs :
      /\ rcall[r].by = "timeout" /\ rcall[r].late
      /\ rcall[r].err = RpcTimeoutMsg("eval", "5000ms")

\* destroy() rejects the owner of every entry with the shutdown error,
\* clears its timer and empties the pending set
DestroyStep ==
    Destroy =>
      /\ \A i \in DOMAIN rpc.pending :
           LET r == rpc.pending[i].owner
           IN  /\ rcall'[r].promise = "rejected"
               /\ rcall'[r].by = "destroy"
               /\ rcall'[r].err = ShutdownMsg
               /\ rcall'[r].timer = NoTimer
               /\ rcall'[r].fired = 1
      /\ rpc'.pending = NoPending

\* C8: destroy() rejects each of the K pending calls with the shutdown
\* error, cancels its timer and leaves the pending set empty; a call
\* rejected by destroy() is never settled again.
C8_DestroyRejectsAll ==
    /\ [][DestroyStep]_vars
    /\ [](\A r \in RProcs : rcall[r].by = "destroy" =>
            /\ rcall[r].promise = "rejected"
            /\ rcall[r].err = ShutdownMsg
            /\ rcall[r].timer = NoTimer
            /\ rcall[r].fired = 1)

C8_Witness ==
    /\ \A r \in RProcs : rcall[r].by = "destroy"
    /\ rpc.pending = NoPending

\* a response with an unregistered id changes nothing, and a call that was
\* pending when one was handled is resolved by its own response
StrayStep ==
    \A c \in Attempts : \A msg \in Messages :
      ModuleMessage(c, msg) /\ msg.type = "rpc-response" =>
        IF msg.requestId \notin DOMAIN rpc.pending
        THEN RpcView' = RpcView
        ELSE LET r == rpc.pending[msg.requestId].owner
             IN  rcall[r].strayed =>
                   /\ rcall'[r].promise = "resolved"
                   /\ rcall'[r].res = msg.payload

\* C9: an rpc-response whose id is not in the pending set settles no call
\* and leaves the pending set, the timers and everything else unchanged;
\* the calls pending at that moment are still resolved by their own
\* response.
C9_StrayResponseDropped == [][StrayStep]_vars

C9_Witness ==
    \E r \in RProcs :
      rcall[r].strayed /\ rcall[r].by = "response" /\ rcall[r].fired = 1

\* C10: the resolve/reject of a call is invoked at most once; a settled
\* call has no armed timer and no entry; a registered call is settled by
\* its response, its timeout, an emission failure or destroy(); the
\* pending set holds exactly one entry, under its own id, for every
\* registered call that is not settled.
C10_SettledOnce ==
    /\ \A r \in RProcs :
         /\ rcall[r].fired <= 1
         /\ Settled(r) <=> rcall[r].fired = 1
         /\ Settled(r) =>
              /\ rcall[r].timer = NoTimer
              /\ rcall[r].id \notin DOMAIN rpc.pending
         /\ Settled(r) /\ rcall[r].id # 0 =>
              rcall[r].by \in {"response", "timeout", "emission", "destroy"}
         /\ rcall[r].promise = "pending" =>
              /\ rcall[r].id \in DOMAIN rpc.pending
              /\ rpc.pending[rcall[r].id].owner = r
              /\ rcall[r].timer # NoTimer
    /\ \A i \in DOMAIN rpc.pending :
         /\ rcall[rpc.pending[i].owner].id = i
         /\ rcall[rpc.pending[i].owner].promise = "pending"
    /\ Cardinality(DOMAIN rpc.pending)
         = Cardinality({r \in RProcs : rcall[r].promise = "pending"})

C10_Witness ==
    \E r, q \in RProcs :
      /\ rcall[r].by = "response" /\ rcall[r].late
      /\ rcall[q].by = "timeout" /\ rcall[q].late

\* C11: an entry placed in the pending set is eventually removed, timers
\* firing eventually: no id stays in the pending set forever.
C11_EntryEventuallyRemoved ==
    \A i \in 1..NumRpc :
      (i \in DOMAIN rpc.pending) ~> (i \notin DOMAIN rpc.pending)

C11_Witness ==
    \E r \in RProcs :
      /\ rcall[r].id # 0 /\ rcall[r].by = "timeout"
      /\ ~rcall[r].late /\ ~rcall[r].strayed
      /\ rpc.pending = NoPending

\* C12: every invocation of a call that expects a reply eventually resolves
\* or rejects, the local timers firing eventually, even if the remote leaves
\* the status probe, the login, the handshake or the request unanswered.
C12_EveryCallSettles ==
    /\ \A p \in Procs :
         (call[p].pc # "idle") ~> (call[p].pc \in {"done", "failed"})
    /\ \A r \in RProcs :
         (rcall[r].pc # "idle") ~> Settled(r)

\* C13: ping() never throws; it returns alive, with the moduleVersion of
\* the pong, exactly when its handler was given an rpc-pong bearing its id
\* while its promise was pending (before its timer fired), and returns
\* alive:false on every other path.
C13_PingNeverRejects ==
    \A q \in PProcs :
      /\ pcall[q].result \in {"none", "alive", "dead"}
      /\ pcall[q].result = "alive" <=> pcall[q].got # "none"
      /\ pcall[q].result = "alive" =>
           pcall[q].by = "pong" /\ pcall[q].version = pcall[q].got
      /\ pcall[q].result = "dead" =>
           /\ pcall[q].by \in {"timeout", "connect", "listener", "emission"}
           /\ pcall[q].version = "none"
      /\ pcall[q].pc = "done" /\ ~pcall[q].timer => pcall[q].result # "none"

C13_Witness ==
    \E q, t \in PProcs :
      /\ pcall[q].result = "alive" /\ pcall[q].version = "v2"
      /\ pcall[t].result = "dead" /\ pcall[t].by = "timeout"
      /\ pcall[t].sent

\* the correlator after destroy(): nothing pending, no handler held
Destroyed(w) ==
    /\ w.rpc.pending = NoPending
    /\ ~w.rpc.listenerAttached
    /\ ~w.rpc.messageHandler

\* destroy() run on the state destroy() has left changes nothing: no
\* resolve/reject is called again, no timer, entry or handler changes
SecondDestroyNoOp ==
    LET w1 == DestroyRpc(World)
    IN  DestroyRpc(w1) = w1 /\ Destroyed(w1)

\* C14: destroy() is idempotent (a second destroy(), and a destroy() with
\* nothing pending, rejects nothing and changes nothing) and leaves the
\* pending set empty and the shared listener detached: no channel holds
\* the handler afterwards.
C14_DestroyDetaches ==
    /\ SecondDestroyNoOp
    /\ \A c \in Attempts : DestroyRpc(World).ch[c].rpcL = 0

\* a channel the client has opened and that neither side has closed: it is
\* connecting, connected, or being reconnected by the channel library
Open(c) == chan[c].st \in {"opening", "up", "down"}

\* C15: at most one channel opened by the client is open at any time, and
\* a channel is opened only when no earlier one is still open.
C15_OneChannelOpen ==
    /\ [](Cardinality({c \in Attempts : Open(c)}) <= 1)
    /\ [][\A c \in Attempts :
            chan[c].st = "none" /\ chan'[c].st = "opening" =>
              \A d \in Attempts : ~Open(d)]_vars

\* C16: the state never changes from "disconnected" directly to "ready".
C16_NoDirectReady ==
    [][~(client.state = "disconnected" /\ client'.state = "ready")]_vars

\* the reasons the channel library gives a "disconnect" event
Reasons == {"io server disconnect", "io client disconnect", "transport close",
            "transport error", "ping timeout"}

\* what a "disconnect" event with this reason leaves in the client fields
AfterDisconnect(reason) ==
    [client EXCEPT !.state = "disconnected",
                   !.sessionId = IF reason = "io server disconnect"
                                 THEN Null ELSE client.sessionId]

\* C17: a disconnect event whose reason is the server's kick sets the state
\* to "disconnected" and clears the session token; with any other reason
\* it sets the state to "disconnected" and leaves the token, and in both
\* cases every other field of the client, unchanged.
C17_DisconnectEffect ==
    /\ [][\A c \in Attempts :
            \A reason \in {"transport close", "io server disconnect"} :
              DisconnectEvent(c, reason) => client' = AfterDisconnect(reason)]_vars
    /\ [](\A reason \in Reasons :
            OnDisconnect(World, reason).cl = AfterDisconnect(reason))

C17_Witness ==
    /\ client.state = "disconnected"
    /\ client.sessionId # Null
    /\ \E c, d \in Attempts :
         /\ chan[c].st = "kicked"
         /\ chan[d].st = "down" /\ client.sessionId = d /\ client.socket = d

\* C18: after the channel library has reconnected a channel, the state is
\* not made "ready" by the reconnection itself, and becomes "ready" only in
\* a step that handles a session confirmation carrying a user id; when the
\* confirmation-wait timer fires, or the confirmation handled by the
\* listener the reconnection registered carries no user id, the state is
\* "disconnected" and the session token cleared.
C18_ReconnectAwaitsSession ==
    /\ [][\A c \in Attempts : ReconnectEvent(c) =>
            client'.state = client.state /\ chan'[c].rcTimer]_vars
    /\ [][client.state # "ready" /\ client'.state = "ready" =>
            \E c \in Attempts : SessionEvent(c, TRUE)]_vars
    /\ [][\A c \in Attempts : ReconnectTimeout(c) =>
            client'.state = "disconnected" /\ client'.sessionId = Null]_vars
    /\ [][\A c \in Attempts :
            SessionEvent(c, FALSE) /\ chan[c].once # {} =>
              client'.state = "disconnected" /\ client'.sessionId = Null]_vars

C18_Witness ==
    /\ reconnects = 1
    /\ client.state = "disconnected" /\ client.sessionId = Null
    /\ \E c \in Attempts :
         /\ chan[c].st = "up" /\ ~chan[c].rcTimer
         /\ c \in chan[c].once /\ chan[c].hello

\* the part of a call that the program can see
Visible(rc) == [rc EXCEPT !.late = FALSE, !.strayed = FALSE]

\* a response bearing the id of pending call r resolves r with its payload
\* and leaves every other call, its entry and its timer as they were
OwnResponseStep ==
    \A c \in Attempts : \A msg \in Messages :
      ModuleMessage(c, msg) /\ msg.type = "rpc-response" =>
        \A r \in RProcs :
          rcall[r].promise = "pending" =>
            IF msg.requestId = rcall[r].id
            THEN /\ rcall'[r].promise = "resolved"
                 /\ rcall'[r].res = msg.payload
            ELSE /\ Visible(rcall'[r]) = Visible(rcall[r])
                 /\ rcall[r].id \in DOMAIN rpc'.pending
                 /\ rpc'.pending[rcall[r].id] = rpc.pending[rcall[r].id]

\* C19: two calls pending at the same time carry distinct ids; a response
\* resolves the call whose id it bears, with its payload, whichever
\* response comes first, and never resolves, rejects or removes the other.
C19_IndependentCalls ==
    /\ [](\A r, q \in RProcs :
            r # q /\ rcall[r].promise = "pending"
                  /\ rcall[q].promise = "pending" =>
              rcall[r].id # rcall[q].id)
    /\ [][OwnResponseStep]_vars

C19_Witness ==
    \E r, q \in RProcs :
      /\ rcall[r].id < rcall[q].id
      /\ rcall[r].promise = "pending" /\ rcall[r].timer # NoTimer
      /\ rcall[q].by = "response"
      /\ rcall[q].res = [success |-> FALSE, result |-> "second"]

\* the error a modifyDocument emission fails with on this reply
ReplyText(reply) ==
    IF reply.message = AbsentMsg THEN UnknownFoundryErrorMsg
    ELSE reply.message

\* the reply to emission k of p settles that emission of p, with what the
\* reply carries, and changes no other call
OwnReplyStep ==
    \A p \in Procs : \A k \in {1, 2} : \A reply \in Replies :
      ReplyEvent(p, k, reply) =>
        /\ \A q \in Procs \ {p} : call'[q] = call[q]
        /\ call[p].pc = (IF k = 1 THEN "wait1" ELSE "wait2") =>
             IF ~reply.error
             THEN /\ call'[p].pc = "done"
                  /\ call'[p].res = [ok |-> TRUE, from |-> k, msg |-> NoError]
             ELSE \/ /\ call'[p].pc = "failed"
                     /\ call'[p].res = Failure(k, ReplyText(reply))
                  \/ /\ k = 1
                     /\ call'[p].err1 = ReplyText(reply)
                     /\ call'[p].cycles = 1
                     /\ call'[p].pc \in {"conn2", "wait2", "failed"}

\* C20: of two modifyDocument calls in flight at the same time, each is
\* settled by the reply to its own request, whatever the order of the
\* replies; the reply to one call never settles or changes the other.
C20_OwnReply == [][OwnReplyStep]_vars

C20_Witness ==
    \E p, q \in Procs :
      /\ p < q
      /\ call[q].pc = "done" /\ call[q].res.from = 1 /\ call[q].emits = 1
      /\ call[p].pc = "wait1"
      /\ call[p].ch1 = call[q].ch1
      /\ <<p, 1>> \in chan[call[p].ch1].acks
      /\ chan[call[p].ch1].st = "up"

\* ------------------------------------- FoundryRpc over a stubbed client
\* With FoundryClient the emitModuleMessage of call() runs in the macrotask
\* in which call()'s own ensureConnected() has returned, so it finds the
\* client ready.  The unit tests of rpc.ts drive FoundryRpc over a client
\* whose ensureConnected() resolves, whose onModuleMessage records the
\* handler and whose emitModuleMessage resolves or rejects; these actions
\* model call() over that client.  pc "stub": the promise emitModuleMessage
\* returned has not settled.
EmitErrors == {NotConnectedMsg, FetchFailedMsg}

\* call() (lines 100-130) up to the call of emitModuleMessage
StubCall(r, method, timeoutMs) ==
    /\ Quiescent
    /\ rcall[r].pc = "idle"
    /\ LET id == RandomUUID(World)
       IN  Becomes([World EXCEPT
             !.rpc.messageHandler = TRUE,
             !.rpc.listenerAttached = TRUE,
             !.uu = @ + 1,
             !.rs[r].id = id,
             !.rs[r].promise = "pending",
             !.rs[r].timer = [method |-> method, timeoutMs |-> timeoutMs],
             !.rpc.pending = Put(@, id, [owner |-> r]),
             !.rs[r].pc = "stub"])

\* the promise emitModuleMessage returned resolves: nothing is chained on it
StubEmitResolves(r) ==
    /\ Quiescent
    /\ rcall[r].pc = "stub"
    /\ Becomes([World EXCEPT !.rs[r].sent = TRUE, !.rs[r].pc = "done"])

\* the promise emitModuleMessage returned rejects with err: the catch
\* callback of lines 125-129 runs
StubEmitRejects(r, err) ==
    /\ Quiescent
    /\ rcall[r].pc = "stub"
    /\ Becomes(EmitRejected(World, r, err))

\* the handler recorded by onModuleMessage is given msg
StubMessage(msg) ==
    /\ Quiescent
    /\ rpc.messageHandler
    /\ Becomes(Observe(HandleMessage(World, msg), World, msg))

StubNext ==
    \/ \E r \in RProcs : \E m \in Methods : \E t \in Timeouts :
         StubCall(r, m, t)
    \/ \E r \in RProcs : StubEmitResolves(r)
    \/ \E r \in RProcs : \E err \in EmitErrors : StubEmitRejects(r, err)
    \/ \E msg \in Messages : StubMessage(msg)
    \/ \E r \in RProcs : RpcTimeout(r)
    \/ Destroy

StubSpec == Init /\ [][StubNext]_vars

\* an emission that fails while the call is pending rejects the call with
\* the emission error, clears its timer and removes its entry, and touches
\* no other call
EmissionFailureStep ==
    \A r \in RProcs : \A err \in EmitErrors :
      StubEmitRejects(r, err) /\ rcall[r].promise = "pending" =>
        /\ rcall'[r].promise = "rejected"
        /\ rcall'[r].by = "emission"
        /\ rcall'[r].err = err
        /\ rcall'[r].timer = NoTimer
        /\ rcall[r].id \in DOMAIN rpc.pending
        /\ rcall[r].id \notin DOMAIN rpc'.pending
        /\ \A q \in RProcs \ {r} : rcall'[q] = rcall[q]

\* C21: when the emission of the rpc-request fails while the call is
\* pending, the call rejects with the emission error, its timer is cleared
\* and its entry removed; from then on the call stays rejected with that
\* error, settled once, with no timer to fire and no entry.
C21_EmissionFailureRejects ==
    /\ [][EmissionFailureStep]_vars
    /\ [](\A r \in RProcs : rcall[r].by = "emission" =>
            /\ rcall[r].promise = "rejected"
            /\ rcall[r].err \in EmitErrors
            /\ rcall[r].fired = 1
            /\ rcall[r].timer = NoTimer
            /\ ~ENABLED RpcTimeout(r)
            /\ rcall[r].id \notin DOMAIN rpc.pending)

C21_Witness ==
    \E r, q \in RProcs :
      /\ rcall[r].by = "emission" /\ rcall[r].err = NotConnectedMsg
      /\ rcall[r].late
      /\ rcall[q].promise = "pending"

\* a response bearing the id of a pending call resolves the call with the
\* payload it carries, whatever its success flag
PassThroughStep ==
    \A c \in Attempts : \A msg \in Messages :
      /\ ModuleMessage(c, msg)
      /\ msg.type = "rpc-response"
      /\ msg.requestId \in DOMAIN rpc.pending
      => LET r == rpc.pending[msg.requestId].owner
         IN  /\ rcall'[r].promise = "resolved"
             /\ rcall'[r].res = msg.payload
             /\ rcall'[r].err = NoError

\* C22: a call resolves with the payload of the response bearing its id,
\* as received, whether its success flag is true or false; a call is
\* resolved only by a response, and rejected only by its timeout, an
\* emission failure, a connection failure or destroy().
C22_OpaqueResult ==
    /\ [][PassThroughStep]_vars
    /\ [](\A r \in RProcs :
            /\ rcall[r].promise = "resolved" <=> rcall[r].by = "response"
            /\ rcall[r].promise = "resolved" =>
                 rcall[r].res \in Payloads /\ rcall[r].err = NoError
            /\ rcall[r].promise = "rejected" =>
                 /\ rcall[r].by \in {"timeout", "emission", "connect",
                                     "destroy"}
                 /\ rcall[r].res = NoPayload
                 /\ rcall[r].err # NoError)

C22_Witness ==
    \E r, q \in RProcs :
      /\ rcall[r].promise = "resolved" /\ ~rcall[r].res.success
      /\ rcall[q].promise = "resolved" /\ rcall[q].res.success
      /\ rcall[r].res.result = "second" /\ rcall[q].res.result = "first"

\* the status probe of attempt a reporting no active world ends the
\* attempt with the no-active-world error and the state "disconnected",
\* and touches neither the session token nor any channel
InactiveStep ==
    \A a \in Attempts :
      FetchStatus(a, "inactive") =>
        /\ attempt'[a] = [pc |-> "rejected", err |-> NoActiveWorldMsg]
        /\ client'.state = "disconnected"
        /\ client'.worldInfo = "inactive"
        /\ client'.sessionId = client.sessionId
        /\ client'.socket = client.socket
        /\ client'.connectPromise = Null
        /\ chan' = chan
        /\ started' = started

\* C23: when the status probe reports no active world, the attempt fails
\* with the no-active-world error and the state is "disconnected"; the
\* attempt is over for good, so it makes no login request, and it never
\* opens a channel.
C23_NoActiveWorld ==
    /\ [][InactiveStep]_vars
    /\ [][\A a \in Attempts :
            attempt[a].pc = "rejected" => attempt'[a] = attempt[a]]_vars
    /\ [](\A a \in Attempts :
            attempt[a].err = NoActiveWorldMsg =>
              /\ attempt[a].pc = "rejected"
              /\ chan[a] = NoChan
              /\ client.sessionId # a
              /\ ~ENABLED Authenticate(a, "session"))

C23_Witness ==
    \E p \in Procs :
      /\ attempt[2].err = NoActiveWorldMsg
      /\ attempt[1].pc = "resolved"
      /\ client.state = "disconnected"
      /\ client.socket = 1
      /\ call[p].pc = "failed" /\ call[p].res.msg = NoActiveWorldMsg

\* a call made while the client is ready starts no attempt, opens no
\* channel, leaves every field of the client as it was and emits at once
FastPathStep ==
    \A r \in RProcs : \A m \in Methods : \A t \in Timeouts :
      RpcCall(r, m, t) /\ IsReady(World) =>
        /\ client' = client
        /\ attempt' = attempt
        /\ started' = started
        /\ \A c \in Attempts : chan'[c].st = chan[c].st
        /\ rcall'[r].sent

\* C24: when the state is "ready" and the channel reports itself connected,
\* ensureConnected() returns at once, with nothing to await: it makes no
\* status probe, login request or channel open, and leaves the state, the
\* session token, the user id, the channel handle and everything else
\* unchanged.
C24_FastPath ==
    /\ [](IsReady(World) =>
            EnsureConnected(World) = [w |-> World, awaited |-> Null])
    /\ [][FastPathStep]_vars

C24_Witness ==
    \E r, q \in RProcs :
      /\ rcall[q].by = "destroy"
      /\ rcall[r].promise = "pending" /\ rcall[r].sent
      /\ started = 1
      /\ IsReady(World)

\* a call made while the client is not ready and no attempt is in flight
\* starts an attempt of its own and awaits it
FreshAttemptStep ==
    \A p \in Procs :
      /\ StartCall(p, "modifyDocument")
      /\ ~IsReady(World)
      /\ \A a \in Attempts : attempt[a].pc \in {"idle", "resolved", "rejected"}
      => /\ started' = started + 1
         /\ attempt'[started'].pc = "fetchStatus"
         /\ attempt[started'].pc = "idle"
         /\ call'[p].pc = "conn1" /\ call'[p].att = started'
         /\ client'.connectPromise = started'

\* C25: a settled attempt is not the in-flight reference any more; an
\* ensureConnected() made while the client is not ready and no attempt is in
\* flight starts a new attempt and awaits that one, never a settled one.
C25_FreshAttempt ==
    /\ [](\A a \in Attempts :
            attempt[a].pc \in {"resolved", "rejected"} =>
              client.connectPromise # a)
    /\ [](~IsReady(World) /\ client.connectPromise = Null
            /\ started < MaxAttempts =>
              LET e == EnsureConnected(World)
              IN  /\ e.awaited = started + 1
                  /\ e.w.n = started + 1
                  /\ e.w.at[e.awaited].pc = "fetchStatus"
                  /\ attempt[e.awaited].pc = "idle")
    /\ [][FreshAttemptStep]_vars

C25_Witness ==
    \E p \in Procs :
      /\ attempt[1].pc = "rejected"
      /\ attempt[2].pc = "resolved"
      /\ attempt[3].pc = "fetchStatus"
      /\ call[p].pc = "conn2" /\ call[p].att = 3
      /\ client.connectPromise = 3

\* the errors connect() throws
ConnectErrors ==
    {FetchFailedMsg, NotReachableMsg, NoActiveWorldMsg, AuthNoCookieMsg,
     AuthBadCookieMsg, HandshakeTimeoutMsg, SessionRejectedMsg,
     ConnectErrorMsg}

\* a call whose first ensureConnected() awaited an attempt that failed
\* fails with the attempt's error, having emitted nothing, and starts no
\* attempt, tears nothing down and touches no channel
FirstConnectFailsStep ==
    \A p \in Procs :
      /\ Resume(p)
      /\ call[p].pc = "conn1"
      /\ attempt[call[p].att].pc = "rejected"
      => /\ call'[p].pc = "failed"
         /\ call'[p].res = Failure(1, attempt[call[p].att].err)
         /\ call'[p].emits = 0
         /\ call'[p].cycles = 0
         /\ started' = started
         /\ attempt' = attempt
         /\ client' = client
         /\ chan' = chan

\* C26: when the attempt awaited by the ensureConnected() at the start of
\* modifyDocument fails, the call fails with that attempt's error as it is,
\* whatever its text; the call has emitted nothing, has torn nothing down
\* and no further attempt is started for it, then or later.
C26_FirstConnectFails ==
    /\ [][FirstConnectFailsStep]_vars
    /\ [][\A p \in Procs :
            call[p].pc = "failed" => call'[p] = call[p]]_vars
    /\ [](\A p \in Procs :
            call[p].pc = "failed" /\ call[p].err1 = NoError =>
              /\ call[p].res.from = 1
              /\ call[p].res.msg \in ConnectErrors
              /\ call[p].emits = 0
              /\ call[p].cycles = 0
              /\ call[p].ch1 = Null /\ call[p].ch2 = Null
              /\ call[p].timers = {}
              /\ \A c \in Attempts : \A k \in {1, 2} :
                   <<p, k>> \notin chan[c].acks)

C26_Witness ==
    \E p \in Procs :
      /\ call[p].pc = "failed"
      /\ call[p].res = Failure(1, HandshakeTimeoutMsg)
      /\ call[p].emits = 0
      /\ started = 1
      /\ client.connectPromise = Null

\* disconnect() closes the channel the client holds and clears the handle,
\* the session token and the state
DisconnectStep ==
    DisconnectCall =>
      /\ client.socket # Null => chan'[client.socket].st = "closed"
      /\ client'.socket = Null
      /\ client'.sessionId = Null
      /\ client'.state = "disconnected"

\* C27: disconnect() closes the channel and clears the channel handle, the
\* session token and the state, and until ensureConnected() is invoked
\* again they stay so and no channel is opened, even when an attempt was in
\* flight at the time of the disconnect().
C27_DisconnectHolds ==
    /\ [][DisconnectStep]_vars
    /\ [](shut => /\ client.socket = Null
                  /\ client.sessionId = Null
                  /\ client.state = "disconnected")
    /\ [][shut /\ shut' =>
            \A c \in Attempts :
              chan[c].st = "none" => chan'[c].st = "none"]_vars

\* the state connect() has set when attempt a takes a step of its own: on
\* being started, on the login's success, on the handshake's success
AttemptStep(a) ==
    /\ attempt[a].pc = "idle" /\ attempt'[a].pc = "fetchStatus" =>
         client'.state = "authenticating"
    /\ attempt[a].pc = "authenticate" /\ attempt'[a].pc = "connectSocket" =>
         client'.state = "connecting"
    /\ attempt[a].pc = "connectSocket" /\ attempt'[a].pc = "resolved" =>
         client'.state = "ready"

\* C28: a successful attempt sets the state to "authenticating", then
\* "connecting", then "connected", then "ready": the state is "connected"
\* when the attempt makes it "ready".
C28_ThroughConnected ==
    /\ [][\A a \in Attempts : AttemptStep(a)]_vars
    /\ [][\A a \in Attempts :
            attempt[a].pc = "connectSocket" /\ attempt'[a].pc = "resolved" =>
              client.state = "connected"]_vars

\* the step in which the first emission of p fails with a transport fault:
\* the channel the client holds is closed, the handle and the session token
\* are cleared, nothing is emitted, and p awaits an attempt whose channel
\* has not been opened (or, opened already, has just been closed)
ForcedTeardownStep ==
    \A p \in Procs :
      call[p].cycles = 0 /\ call'[p].cycles = 1 =>
        /\ IsTransportFault(call'[p].err1, SocketConnected(World))
        /\ client.socket # Null => chan'[client.socket].st = "closed"
        /\ call[p].ch1 = client.socket => chan'[call[p].ch1].st = "closed"
        /\ client'.socket = Null
        /\ client'.sessionId = Null
        /\ call'[p].emits = call[p].emits
        /\ call'[p].pc = "conn2"
        /\ call'[p].att = client'.connectPromise
        /\ attempt'[call'[p].att].pc
             \in {"fetchStatus", "authenticate", "connectSocket"}
        /\ chan'[call'[p].att].st \in {"none", "closed"}

\* the retry of p is emitted when the attempt p awaited has succeeded, on
\* the channel that attempt opened
RetryEmissionStep ==
    \A p \in Procs :
      call[p].ch2 = Null /\ call'[p].ch2 # Null =>
        /\ Resume(p)
        /\ call[p].pc = "conn2"
        /\ call[p].cycles = 1
        /\ attempt[call[p].att].pc = "resolved"
        /\ call'[p].ch2 = call[p].att
        /\ client.socket = call[p].att
        /\ chan[call[p].att].st = "up"
        /\ call'[p].emits = call[p].emits + 1

Waiting(p, k) == call[p].pc = (IF k = 1 THEN "wait1" ELSE "wait2")

\* a reply to an emission that is still waiting cancels its timer; a reply
\* to an emission that has settled changes nothing of the call but the
\* (spent) timer handle, and nothing of the client
ReplyOnceStep ==
    \A p \in Procs : \A k \in {1, 2} : \A reply \in Replies :
      ReplyEvent(p, k, reply) =>
        /\ k \notin call'[p].timers
        /\ ~Waiting(p, k) =>
             /\ call'[p] = [call[p] EXCEPT !.timers = @ \ {k}]
             /\ call[p].timers = call'[p].timers
             /\ client' = client
             /\ attempt' = attempt
             /\ started' = started

\* a timer that fires belongs to an emission that is still waiting, and
\* makes it fail with the timeout error
TimeoutOnceStep ==
    \A p \in Procs : \A k \in {1, 2} :
      EmitTimeout(p, k) =>
        /\ Waiting(p, k)
        /\ ~Waiting(p, k)'
        /\ k \notin call'[p].timers
        /\ IF k = 1 THEN call'[p].err1 = EmitTimeoutMsg
           ELSE call'[p].res = Failure(2, EmitTimeoutMsg)

\* what the caller has observed never changes: a finished call keeps its
\* outcome, the error of the first emission stays, and an emission that
\* has settled is not waited for again
OutcomeKeptStep ==
    \A p \in Procs :
      /\ call[p].pc \in {"done", "failed"} =>
           call'[p].pc = call[p].pc /\ call'[p].res = call[p].res
      /\ call[p].err1 # NoError => call'[p].err1 = call[p].err1
      /\ call[p].pc \in {"conn2", "wait2"} => call'[p].pc # "wait1"

\* C30: each modifyDocument emission settles once.  Its timer is armed
\* exactly while it waits: when the reply settles it the timer is cancelled
\* and cannot fire, and when the timer has rejected it a reply arriving
\* later changes nothing of what the caller observed.
C30_AttemptSettlesOnce ==
    /\ [][ReplyOnceStep /\ TimeoutOnceStep /\ OutcomeKeptStep]_vars
    /\ [](\A p \in Procs : \A k \in {1, 2} :
            /\ k \in call[p].timers <=> Waiting(p, k)
            /\ ~Waiting(p, k) => ~ENABLED EmitTimeout(p, k))

C30_Witness ==
    \E p, q \in Procs :
      /\ call[p].res = Failure(2, EmitTimeoutMsg)
      /\ call[p].pc = "failed"
      /\ chan[call[p].ch2].st = "up"
      /\ reconnects = 0
      /\ <<p, 2>> \notin chan[call[p].ch2].acks
      /\ call[q].pc = "done" /\ call[q].res.from = 1
      /\ call[q].timers = {}

\* the correlator when destroy() is never called
RpcCallsNext ==
    \/ RpcEnvironment
    \/ \E r \in RProcs : \E m \in Methods : \E t \in Timeouts :
         RpcCall(r, m, t)
    \/ \E r \in RProcs : RpcResume(r)
    \/ \E c \in Attempts : \E msg \in Messages : ModuleMessage(c, msg)
    \/ \E r \in RProcs : RpcTimeout(r)

RpcCallsSpec == Init /\ [][RpcCallsNext]_vars

\* the channels on which a handler of the correlator is registered
Listening == {c \in Attempts : chan[c].rpcL > 0}

\* C31: as long as destroy() is not called, the correlator has at most one
\* handler registered, whatever the number of calls: no channel holds two,
\* no two channels hold one, and a handler is registered only in a step in
\* which the correlator was not marked attached.
C31_ListenerOnce ==
    /\ [](/\ \A c \in Attempts : chan[c].rpcL <= 1
          /\ Cardinality(Listening) <= 1
          /\ rpc.listenerAttached <=> Listening # {}
          /\ rpc.listenerAttached => Listening = {rpc.attachedOn})
    /\ [][\A c \in Attempts :
            chan'[c].rpcL # chan[c].rpcL =>
              /\ ~rpc.listenerAttached
              /\ rpc'.listenerAttached
              /\ chan'[c].rpcL = 1]_vars

C31_Witness ==
    \E r, q \in RProcs :
      /\ r # q
      /\ rcall[r].sent /\ rcall[q].sent
      /\ rcall[r].id = 1 /\ rcall[q].id = 2
      /\ client.socket = 2
      /\ Listening = {1}

\* C32: once a ping() has returned, by pong, by timeout or by emission
\* failure, the handler it registered is registered on no channel; when
\* every ping made has returned, no channel holds a pong handler.
C32_PingDetaches ==
    /\ \A q \in PProcs :
         pcall[q].result # "none" => \A c \in Attempts : q \notin chan[c].pongL
    /\ (\A q \in PProcs : pcall[q].pc = "idle" \/ pcall[q].result # "none")
         => \A c \in Attempts : chan[c].pongL = {}

\* C33: when its window ends, getActiveUsers() resolves with exactly the
\* userActivity events the channel of its request delivered while the
\* window was open, in arrival order; from then on its handler is
\* registered on no channel and the array it resolved with does not grow.
C33_WindowResult ==
    \A q \in UProcs :
      ucall[q].pc = "done" =>
        /\ ucall[q].seen = ucall[q].arrived
        /\ ucall[q].on = Null
        /\ ucall[q].users = ucall[q].seen

\* the macro was created and the operation has not ended
MacroLive == mcall.created /\ mcall.pc \notin {"done", "failed"}

MacroCleanupOnce ==
    /\ mcall.deletes <= 1
    /\ ~mcall.created => mcall.deletes = 0
    /\ mcall.pc \in {"done", "failed"} /\ mcall.created => mcall.deletes = 1
    /\ mcall.pc = "delMacro" <=> MacroLive /\ mcall.deletes = 1

MacroCleanupStep ==
    /\ mcall.pc = "delMacro" /\ mcall'.pc # "delMacro" =>
         /\ mcall'.ret = mcall.out
         /\ mcall'.pc = IF mcall.out.kind = "throw" THEN "failed" ELSE "done"
    /\ mcall.pc = "delMsg" /\ mcall'.pc # "delMsg" =>
         mcall'.out = Returned("success", ParsedData)

\* C34: once executeMacroWithResult holds the id of the macro it created,
\* it starts exactly one delete of that macro before it returns or throws,
\* whether the result was found, the poll loop ran out or a step in between
\* threw; whatever the delete of the macro does, the operation ends with
\* what its try block returned or threw, and whatever the delete of the
\* result message does, the try block returns the parsed data.
C34_MacroCleanup == []MacroCleanupOnce /\ [][MacroCleanupStep]_vars

\* the result was found and both deletes threw
C34_Witness ==
    /\ mcall.pc = "done" /\ mcall.ret = Returned("success", ParsedData)
    /\ mcall.delFailed /\ mcall.msgDelFailed /\ mcall.deletes = 1

\* the step in which a call tears the connection down before its retry
\* closes no channel but the one its request was emitted on, and clears the
\* handle only if it holds that channel
TeardownOwnChannelStep ==
    \A p \in Procs :
      call[p].cycles = 0 /\ call'[p].cycles = 1 =>
        /\ \A c \in Attempts :
             chan[c].st # "closed" /\ chan'[c].st = "closed" =>
               /\ c = call[p].ch1
               /\ attempt[c].pc # "connectSocket"
        /\ client.socket # Null /\ client'.socket = Null =>
             client.socket = call[p].ch1

\* C35: the forced teardown of a failing call closes only the channel its
\* own request was emitted on: never the channel of a more recent attempt,
\* never the channel of an attempt that is still in flight.
C35_TeardownOwnChannel == [][TeardownOwnChannelStep]_vars

\* C36: whenever the correlator is marked attached and the client holds a
\* channel, the correlator's handler is registered on that channel, so that
\* a response delivered on it for a pending call reaches handleMessage.
C36_ListenerOnCurrent ==
    /\ rpc.listenerAttached /\ client.socket # Null =>
         client.socket \in Listening
    /\ \A r \in RProcs :
         /\ rcall[r].promise = "pending"
         /\ rcall[r].id \in DOMAIN rpc.pending
         /\ SocketConnected(World)
         => client.socket \in Listening

\* C37: in every reachable state whose connection state is "ready" the
\* session token and the user id are both set.
C37_ReadyHasSession ==
    client.state = "ready" =>
      client.sessionId # Null /\ client.userId # NoUser

\* an event or a timer of channel c
ChannelStep(c) ==
    \/ \E reason \in {"transport close", "io server disconnect"} :
         DisconnectEvent(c, reason)
    \/ \E ok \in BOOLEAN : SessionEvent(c, ok)
    \/ ReconnectTimeout(c)
    \/ HandshakeTimeout(c)

\* C38: the disconnect event, the session events, the confirmation timer
\* and the handshake timeout of a channel that is not the one the client
\* holds change neither the connection state nor the session token nor the
\* user id.
C38_StaleChannelInert ==
    [][\A c \in Attempts :
         c # client.socket /\ ChannelStep(c) =>
           /\ client'.state = client.state
           /\ client'.sessionId = client.sessionId
           /\ client'.userId = client.userId]_vars

\* C39: the rpc-request of a call is emitted in the step that creates the
\* call's promise, before anything settles it: a call settled by a
\* response, by its timer or by destroy() has been emitted, and none is
\* emitted once settled.
C39_EmitBeforeSettle ==
    /\ [](\A r \in RProcs :
            /\ rcall[r].promise \in {"resolved", "rejected"}
            /\ rcall[r].by \in {"response", "timeout", "destroy"}
            => rcall[r].sent)
    /\ [][\A r \in RProcs :
            ~rcall[r].sent /\ rcall'[r].sent =>
              /\ rcall[r].promise = "none"
              /\ rcall'[r].promise = "pending"]_vars

\* one call rejected by its timer and one by destroy(), both emitted before
C39_Witness ==
    \E r, q \in RProcs :
      /\ rcall[r].sent /\ rcall[r].promise = "rejected"
      /\ rcall[r].by = "timeout"
      /\ rcall[q].sent /\ rcall[q].promise = "rejected"
      /\ rcall[q].by = "destroy"

====
